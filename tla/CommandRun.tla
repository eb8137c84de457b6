----------------------------- MODULE CommandRun -----------------------------
(***************************************************************************)
(* One run of the program, from its arguments to its exit status: main.go, *)
(* Load and LoadForMaintenance of config.go, and runOnce of process.go.    *)
(* The digests work on their chats' state files at the same time; what     *)
(* they do there is DigestCycle.  The service's reloads are                *)
(* ServiceGenerations: here its digests come and go under one              *)
(* configuration.                                                          *)
(***************************************************************************)
EXTENDS StateMapping, SearchSources

CONSTANTS
    Cases,          \* the arguments, configuration files and directories tried
    Unset           \* a flag that is not given

\* Lists and maps of any values are decoded, valid or not.
SearchDecodes(search) ==
    /\ search.categories \in Seq(ToSet(search.categories))
    /\ \A f \in DOMAIN search.filters : search.filters[f] \in Seq(ToSet(search.filters[f]))
    /\ search.queries \in Seq(ToSet(search.queries))

ASSUME CasesAssumption ==
    \A c \in Cases :
        /\ c.fs \in FileSystems(Files)
        /\ c.config.chats \in Seq(ToSet(c.config.chats))
        /\ \A chat \in ToSet(c.config.chats) : SearchDecodes(chat.search)

VARIABLES
    args,       \* the command line
    config,     \* the configuration file
    fs,         \* the state directory
    pc,         \* where main is
    recipients, \* the chats to work on: their file and their pages
    job,        \* what each recipient's goroutine does or how it ended
    signalled,  \* SIGINT or SIGTERM has arrived
    status      \* the exit status

input == <<args, config>>
vars  == <<input, fs, pc, recipients, job, signalled, status>>

\* A case with the arguments, the configuration file and the directory.  The
\* arguments have syntax: they parse, and hold no others; help: there are none,
\* or -help is among those parsed; and the values of the flags.  The file has
\* decodes: it can be read and its fields are known; globals: those outside
\* chats are valid; chats.
Init ==
    /\ \E c \in Cases : args = c.args /\ config = c.config /\ fs = c.fs
    /\ pc = "parsing"
    /\ recipients = <<>> /\ job = <<>>
    /\ signalled = FALSE /\ status = Unset

Exit(code) == pc' = "exited" /\ status' = code

-----------------------------------------------------------------------------
(* The command line                                                        *)

Modes == {m \in {"service", "once", "forget"} : args[m] # Unset}

ChatIsValid == args.chat = Unset \/ args.chat \in DOMAIN Normal

\* parseCommandLineArgs and validateCommandOptions
ArgumentsAreValid ==
    /\ args.syntax /\ ChatIsValid
    /\ \E mode \in Modes : Modes = {mode}
    /\ "service" \in Modes => args.chat = Unset
    /\ "forget" \in Modes => args.forget > 0 /\ args.chat # Unset

\* Help is printed whatever else is said.
Help ==
    /\ pc = "parsing" /\ args.help
    /\ Exit(0)
    /\ UNCHANGED <<input, fs, recipients, job, signalled>>

Reject ==
    /\ pc = "parsing" /\ ~args.help /\ ~ArgumentsAreValid
    /\ Exit(2)
    /\ UNCHANGED <<input, fs, recipients, job, signalled>>

Accept ==
    /\ pc = "parsing" /\ ~args.help /\ ArgumentsAreValid
    /\ pc' = "loading"
    /\ UNCHANGED <<input, fs, recipients, job, signalled, status>>

-----------------------------------------------------------------------------
(* The configuration                                                       *)

\* validate and validateChats
ConfigIsValid ==
    /\ config.decodes /\ config.globals
    /\ MappingIsValid(fs, config.chats)
    /\ \A c \in ToSet(config.chats) : c.token /\ SearchIsValid(c.search)

\* LoadForMaintenance asks for nothing but the mapping.
MappingIsKnown == config.decodes /\ MappingIsValid(fs, config.chats)

Forgetting == Modes = {"forget"}

\* The chats that -chat selects; all without it.
Selection(chats, chat) ==
    LET selected[n \in 0..Len(chats)] ==
            IF n = 0 THEN <<>>
            ELSE IF chat = Unset \/ ChatOf(chats[n]) = Normal[chat]
                 THEN Append(selected[n-1], chats[n])
                 ELSE selected[n-1]
    IN  selected[Len(chats)]

Selected == Selection(config.chats, args.chat)

Loadable ==
    /\ IF Forgetting THEN MappingIsKnown ELSE ConfigIsValid
    /\ Selected # <<>>

LoadFails ==
    /\ pc = "loading" /\ ~Loadable
    /\ Exit(1)
    /\ UNCHANGED <<input, fs, recipients, job, signalled>>

Recipient(c) ==
    [chat |-> ChatOf(c), file |-> FileOf(c),
     urls |-> IF Forgetting THEN <<>> ELSE SearchURLs(c.search)]

Load ==
    /\ pc = "loading" /\ Loadable
    /\ recipients' = [i \in DOMAIN Selected |-> Recipient(Selected[i])]
    /\ job' = [i \in DOMAIN Selected |-> "launched"]
    /\ pc' = "running"
    /\ UNCHANGED <<input, fs, signalled, status>>

-----------------------------------------------------------------------------
(* The recipients' goroutines                                              *)

\* A digest, or the deletion, opens the state file and creates it if needed.
Begin(i) ==
    LET place == Place(fs, recipients[i].file)
    IN  /\ pc = "running" /\ job[i] = "launched"
        /\ job' = [job EXCEPT ![i] = "working"]
        /\ fs' = IF fs.dir[place] = Absent THEN [fs EXCEPT !.dir[place] = File(place)] ELSE fs
        /\ UNCHANGED <<input, pc, recipients, signalled, status>>

\* A service has further digests of the chat.
Ends(i, result) == job' = [job EXCEPT ![i] = IF Modes = {"service"} THEN "launched" ELSE result]

\* The state file cannot be opened.
BeginFails(i) ==
    /\ pc = "running" /\ job[i] = "launched"
    /\ Ends(i, "failed")
    /\ UNCHANGED <<input, fs, pc, recipients, signalled, status>>

Finish(i, result) ==
    /\ pc = "running" /\ job[i] = "working"
    /\ Ends(i, result)
    /\ UNCHANGED <<input, fs, pc, recipients, signalled, status>>

Signal ==
    /\ pc = "running" /\ ~signalled
    /\ signalled' = TRUE
    /\ UNCHANGED <<input, fs, pc, recipients, job, status>>

Ended == {"done", "failed"}

\* Mistaken: the first error is returned.
ReturnFirst ==
    /\ pc = "running" /\ Modes # {"service"}
    /\ \/ \E i \in DOMAIN job : job[i] = "failed" /\ Exit(1)
       \/ (\A i \in DOMAIN job : job[i] = "done") /\ Exit(0)
    /\ UNCHANGED <<input, fs, recipients, job, signalled>>

\* runOnce waits for every goroutine and joins the errors.
Return ==
    /\ pc = "running" /\ Modes # {"service"}
    /\ \A i \in DOMAIN job : job[i] \in Ended
    /\ Exit(IF \E i \in DOMAIN job : job[i] = "failed" THEN 1 ELSE 0)
    /\ UNCHANGED <<input, fs, recipients, job, signalled>>

\* RunReloadable has waited for its digests and returns nil.
ServiceReturns ==
    /\ pc = "running" /\ Modes = {"service"} /\ signalled
    /\ \A i \in DOMAIN job : job[i] # "working"
    /\ Exit(0)
    /\ UNCHANGED <<input, fs, recipients, job, signalled>>

Exited == pc = "exited" /\ UNCHANGED vars

Next ==
    \/ Help \/ Reject \/ Accept \/ LoadFails \/ Load
    \/ \E i \in DOMAIN job :
          Begin(i) \/ BeginFails(i) \/ \E result \in Ended : Finish(i, result)
    \/ Signal \/ Return \/ ServiceReturns \/ Exited

Spec == Init /\ [][Next]_vars
-----------------------------------------------------------------------------
(* Properties                                                              *)

\* Two chats' digests that work at the same time never have the same file
\* open: not through names that the file system takes for one, through links
\* or through a file that the other has just created.
NoSharedStateFile ==
    \A i, j \in DOMAIN job :
        i # j /\ job[i] = "working" /\ job[j] = "working"
        => Target(fs, recipients[i].file) # Target(fs, recipients[j].file)

\* The requests of a search, each with its rank: categories, then filters in
\* form order, then queries.
CategoryRequests(s) == { [rank |-> <<1, i, 0>>, word |-> s.categories[i]] : i \in DOMAIN s.categories }

FormRequests(s) ==
    { [rank |-> <<3, i, 0>>, query |-> s.queries[i]] : i \in DOMAIN s.queries }
    \cup UNION { { [rank |-> <<2, i, j>>, query |-> [f \in {FormFields[i]} |-> s.filters[f][j]]]
                     : j \in DOMAIN s.filters[FormFields[i]] }
                   : i \in { k \in DOMAIN FormFields : FormFields[k] \in DOMAIN s.filters } }

FormPlace(field) == CHOOSE i \in DOMAIN FormFields : FormFields[i] = field

\* The parameters ask what the query does, in form order, and for the last
\* week at the end unless it says otherwise.
Asks(parameters, query) ==
    LET fields == [i \in DOMAIN parameters |-> parameters[i][1]]
        given  == DOMAIN query
    IN  /\ IsInjective(fields) /\ ToSet(fields) = given \cup {LastDays}
        /\ \A i \in DOMAIN parameters :
              parameters[i][2] = IF fields[i] \in given THEN query[fields[i]] ELSE Week
        /\ \A i, j \in DOMAIN fields :
              i < j /\ fields[i] \in given /\ fields[j] \in given => FormPlace(fields[i]) < FormPlace(fields[j])
        /\ LastDays \notin given => Last(fields) = LastDays

\* The ranks of the requests that a page answers.
Answers(url, s) ==
    { r.rank : r \in { c \in CategoryRequests(s) : url = CategoryURL(c.word) } }
    \cup { r.rank : r \in { q \in FormRequests(s) : url.page = "form" /\ Asks(url.parameters, q.query) } }

Before(a, b) ==
    \E k \in 1..3 : a[k] < b[k] /\ \A l \in 1..k - 1 : a[l] = b[l]

\* A chat's pages are those its categories, filters and queries ask for and no
\* others, each once, ordered by the first request for it.
SourcesAsConfigured ==
    ~Forgetting => \A n \in DOMAIN recipients :
        LET s    == Selected[n].search
            urls == recipients[n].urls
            all  == { r.rank : r \in CategoryRequests(s) } \cup { r.rank : r \in FormRequests(s) }
        IN  /\ UNION { Answers(u, s) : u \in ToSet(urls) } = all
            /\ \A u \in ToSet(urls) : Answers(u, s) # {}
            /\ \A i, j \in DOMAIN urls : i < j =>
                  \E a \in Answers(urls[i], s) : \A b \in Answers(urls[j], s) : Before(a, b)

\* Without -chat every chat of the configuration is a recipient.
EveryChatAttempted ==
    job # <<>> /\ args.chat = Unset =>
        { recipients[i].chat : i \in DOMAIN recipients } = { ChatOf(c) : c \in ToSet(config.chats) }

\* The exit status tells an error of the arguments from one of the
\* configuration or of the work, and success from both: whoever reads 0 knows
\* that every selected chat was done, and no chat is left unattempted because
\* another one failed.
ExitStatusTells ==
    pc = "exited" =>
        /\ \A i \in DOMAIN job : Modes # {"service"} => job[i] \in Ended
        /\ status = 0 =>
              \/ args.help
              \/ "service" \in Modes /\ signalled
              \/ job # <<>> /\ \A i \in DOMAIN job : job[i] = "done"
        /\ status = 1 =>
              ArgumentsAreValid /\ (job # <<>> => \E i \in DOMAIN job : job[i] = "failed")
        /\ status = 2 => job = <<>> /\ ~ArgumentsAreValid
        /\ EveryChatAttempted
=============================================================================
