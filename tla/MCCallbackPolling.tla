------------------------- MODULE MCCallbackPolling --------------------------
(***************************************************************************)
(* Two bots and two chats.  The settings name the first chat by its id, by *)
(* its id and by its user name, or give each chat a recipient, of one bot  *)
(* or of two.                                                              *)
(***************************************************************************)
EXTENDS CallbackPolling

CONSTANTS bot, other, twice, both, apart

One == [id |-> 1, name |-> "one"]
Two == [id |-> 2, name |-> "two"]

ById(chat, t)   == [expected |-> [byName |-> FALSE, id |-> chat.id], token |-> t]
ByName(chat, t) == [expected |-> [byName |-> TRUE, name |-> chat.name], token |-> t]

RecipientLists ==
    [s \in Snapshots |->
        CASE s = twice -> <<ById(One, bot), ByName(One, bot)>>
          [] s = both  -> <<ById(One, bot), ByName(Two, bot)>>
          [] s = apart -> <<ByName(One, other), ByName(Two, bot)>>]

Refresh(chat) == [chat |-> chat, refresh |-> TRUE]

SomeButtons == {Refresh(One), Refresh(Two), [chat |-> One, refresh |-> FALSE]}
=============================================================================
