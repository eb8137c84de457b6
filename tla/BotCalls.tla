------------------------------ MODULE BotCalls ------------------------------
(***************************************************************************)
(* What the answer to one call of the Telegram Bot API is taken for:       *)
(* normalizeSDKCallError of internal/telegram on top of the SDK's requests. *)
(* An answer is its HTTP status and its body; the body can break off, be   *)
(* larger than the limit, be no reply of the API, or be a reply with the   *)
(* API's own error code, 0 when the call was served.                       *)
(***************************************************************************)
EXTENDS Integers

Statuses == {200, 400, 429, 502}

Unanswered == [status |-> 0, body |-> "none", code |-> 0, retryAfter |-> 0]

Answers ==
    {Unanswered}
    \cup [status : Statuses, body : {"broken", "oversized", "garbled"}, code : {0}, retryAfter : {0}]
    \cup [status : Statuses, body : {"reply"}, code : {0, 400, 403, 429, 500}, retryAfter : -1..1]

\* Whether Telegram has done what was asked: its reply says so, nothing else does.
Taken(a) == IF a.body = "reply" THEN {a.code = 0} ELSE BOOLEAN

Error(kind) == [kind |-> kind, retryAfter |-> 0]

\* Mistaken: a request that failed may be repeated.
NormalizeRetrying(a, cancelled) ==
    CASE a.body = "reply" /\ a.code = 0     -> Error("none")
      [] a.body \in {"none", "broken"}      -> [kind |-> "request", retryAfter |-> 1]
      [] cancelled                          -> Error("request")
      [] a.body \in {"oversized", "garbled"} -> Error("other")
      [] a.code = 429 /\ a.retryAfter > 0   -> [kind |-> "rejected", retryAfter |-> a.retryAfter]
      [] OTHER                              -> Error("rejected")

\* normalizeSDKError: of a reply that rejects the call, only a rate limit says
\* when to retry.
Normalize(a, cancelled) ==
    CASE a.body = "reply" /\ a.code = 0     -> Error("none")
      [] a.body \in {"none", "broken"}      -> Error("request")
      [] cancelled                          -> Error("request")
      [] a.body \in {"oversized", "garbled"} -> Error("other")
      [] a.code = 429 /\ a.retryAfter > 0   -> [kind |-> "rejected", retryAfter |-> a.retryAfter]
      [] OTHER                              -> Error("rejected")

\* normalizeSDKCallError: a status other than success is a rejection, too.
CallError(a, cancelled) ==
    LET error == Normalize(a, cancelled)
    IN  IF \/ a.status \in {0} \cup 200..299
           \/ error.kind = "rejected" \/ (cancelled /\ error.kind # "none")
        THEN error
        ELSE Error("rejected")

Outcomes ==
    UNION { { [taken |-> t, error |-> CallError(a, c)] : t \in Taken(a), c \in BOOLEAN } : a \in Answers }

\* How a call can end: with success, with a delay to wait before a retry, or
\* with an error; each is whether Telegram has done it.
Successes == { o.taken : o \in { x \in Outcomes : x.error.kind = "none" } }

Retries == { o.taken : o \in { x \in Outcomes : x.error.retryAfter > 0 } }

Failures ==
    { o.taken : o \in { x \in Outcomes : x.error.kind # "none" /\ x.error.retryAfter = 0 } }
=============================================================================
