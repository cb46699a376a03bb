------------------------------ MODULE MindsChat ------------------------------
(***************************************************************************)
(* thebe_core/minds/client.py and its two callers in creator/service.py:   *)
(* turns of a chat with the author's Mind.  All turns of the process, those *)
(* of the job worker and those of revise requests, share one conversation  *)
(* (one alias) at an external service; a reply carries no reference to the *)
(* message it answers.                                                     *)
(*                                                                         *)
(* A fingerprint is the position of its row: the service is assumed to     *)
(* hand out fingerprints that grow, and to keep no row back.  The client   *)
(* is configured, and a Mind answers a message once, late or never.        *)
(***************************************************************************)
EXTENDS Integers, Sequences, FiniteSets

CONSTANTS
    Turns,         \* the turns: mind_message jobs, generate jobs and revise requests
    KindOf,        \* "message": message_mind; "generate": generate_asset_payloads
    MindOf,        \* the mind_id of a turn
    Minds,         \* Minds that authors may be bound to
    NoMind,        \* none
    HistoryLimit,  \* rows of one history request ("limit": 50)
    MaxOpen,       \* bound: turns that may be open at the same time
    MaxFaults      \* bound: requests to the service that fail

ASSUME ChatAssumption ==
    /\ KindOf \in [Turns -> {"message", "generate"}]
    /\ MindOf \in [Turns -> Minds] /\ NoMind \notin Minds
    /\ HistoryLimit \in Nat \ {0} /\ MaxOpen \in Nat /\ MaxFaults \in Nat

VARIABLES
    history,   \* external: the rows of the conversation
    bound,     \* external: the Mind the alias is bound to, since an earlier process perhaps
    at,        \* where a turn is in MindsClient.message
    after,     \* the fingerprint replies must exceed; 0 for none
    outcome,   \* what the turn's caller gets
    reply,     \* the row taken for the reply; 0 for none
    quiet,     \* history: nothing but the turn's own message can be answered
    served,    \* history: rows handed out before the turn asked for its fingerprint
    faults     \* the failures so far

service == <<history, bound>>
locals == <<at, after>>
results == <<outcome, reply>>
notes == <<quiet, served>>
vars == <<service, locals, results, notes, faults>>

Rows == [from : {"human", "mind"}, turn : Turns]
Steps == {"ensure", "latest", "post", "wait"}

Init ==
    /\ history = <<>> /\ bound \in Minds \cup {NoMind}
    /\ at = [t \in Turns |-> "new"]
    /\ after = [t \in Turns |-> 0]
    /\ outcome = [t \in Turns |-> "none"]
    /\ reply = [t \in Turns |-> 0]
    /\ quiet = [t \in Turns |-> FALSE]
    /\ served = [t \in Turns |-> {}]
    /\ faults = 0

Open == {t \in Turns : at[t] \in Steps}

(* Messages in the conversation that have no reply yet. *)
Unanswered ==
    LET turnsOf(who) == {history[i].turn : i \in {j \in DOMAIN history : history[j].from = who}}
    IN  turnsOf("human") \ turnsOf("mind")

(***************************************************************************)
(* External: the Mind                                                      *)
(***************************************************************************)

MindAnswers(t) ==
    /\ t \in Unanswered
    /\ history' = Append(history, [from |-> "mind", turn |-> t])
    /\ UNCHANGED <<bound, locals, results, notes, faults>>

(***************************************************************************)
(* How a turn ends                                                         *)
(***************************************************************************)

End(t, result, row) ==
    /\ at' = [at EXCEPT ![t] = "done"]
    /\ outcome' = [outcome EXCEPT ![t] = result]
    /\ reply' = [reply EXCEPT ![t] = row]

(* generate_asset_payloads falls back to composing assets itself when the  *)
(* client raises MindsApiError or ValueError; message_mind does not.       *)
FallbackTimeout(t) == IF KindOf[t] = "generate" THEN "local" ELSE "timeout"

Fallback(t) == IF KindOf[t] = "generate" THEN "local" ELSE "failed"

(***************************************************************************)
(* A turn                                                                  *)
(***************************************************************************)

Start(t) ==
    /\ at[t] = "new"
    /\ Cardinality(Open) < MaxOpen
    /\ at' = [at EXCEPT ![t] = "ensure"]
    /\ UNCHANGED <<service, after, results, notes, faults>>

(* ensure_conversation: the POST binds an alias that is new; when it is    *)
(* refused, the GET shows which Mind the alias belongs to.                 *)
EnsureUnchecked(t) ==
    /\ at[t] = "ensure"
    /\ bound' = IF bound = NoMind THEN MindOf[t] ELSE bound
    /\ at' = [at EXCEPT ![t] = "latest"]
    /\ UNCHANGED <<history, after, results, notes, faults>>

Ensure(t) ==
    /\ at[t] = "ensure"
    /\ bound \in {NoMind, MindOf[t]}
    /\ bound' = MindOf[t]
    /\ at' = [at EXCEPT ![t] = "latest"]
    /\ UNCHANGED <<history, after, results, notes, faults>>

AliasTaken(t) ==
    /\ at[t] = "ensure"
    /\ bound \notin {NoMind, MindOf[t]}
    /\ End(t, Fallback(t), 0)
    /\ UNCHANGED <<service, after, notes, faults>>

AskLatest(t) ==
    /\ at[t] = "latest"
    /\ at' = [at EXCEPT ![t] = "post"]
    /\ served' = [served EXCEPT ![t] = {reply[u] : u \in Turns} \ {0}]

ReadLatest(t, fingerprint) ==
    /\ AskLatest(t)
    /\ after' = [after EXCEPT ![t] = fingerprint]
    /\ quiet' = [quiet EXCEPT ![t] = Unanswered = {}]
    /\ UNCHANGED <<service, results, faults>>

(* _latest_fingerprint: the row a reply must come after.                   *)
LatestFirst(t) == ReadLatest(t, IF history = <<>> THEN 0 ELSE 1)

Latest(t) == ReadLatest(t, Len(history))

(* _latest_fingerprint turns a failure into None: nothing is filtered.     *)
LatestFails(t) ==
    /\ AskLatest(t)
    /\ faults < MaxFaults
    /\ faults' = faults + 1
    /\ UNCHANGED <<service, after, results, quiet>>

(* The message reaches the conversation.  No other turn is quiet then.     *)
Deliver(t) ==
    /\ at[t] = "post"
    /\ history' = Append(history, [from |-> "human", turn |-> t])
    /\ quiet' = [u \in Turns |-> quiet[u] /\ (u = t \/ u \notin Open)]

(* The POST of the message; _request repeats it on 409, which the service  *)
(* is assumed to send only when it has not taken the message.              *)
Post(t) ==
    /\ Deliver(t)
    /\ at' = [at EXCEPT ![t] = "wait"]
    /\ UNCHANGED <<bound, after, results, served, faults>>

(* The message is delivered, the answer to the POST is lost: a transport   *)
(* error, which neither caller catches.                                    *)
PostLost(t) ==
    /\ Deliver(t)
    /\ faults < MaxFaults
    /\ faults' = faults + 1
    /\ End(t, "error", 0)
    /\ UNCHANGED <<bound, after, served>>

(* A request fails: with a status (MindsApiError), which LatestFails turns *)
(* into None for the fingerprint, or in transport.                         *)
RequestFails(t, transport) ==
    /\ at[t] \in {"ensure", "post", "wait"} \/ (transport /\ at[t] = "latest")
    /\ faults < MaxFaults
    /\ faults' = faults + 1
    /\ End(t, IF transport THEN "error" ELSE Fallback(t), 0)
    /\ UNCHANGED <<service, after, notes>>

(* The rows of one history request that _is_mind_reply accepts.            *)
RepliesOfAnyAge(t) ==
    {i \in DOMAIN history :
        i > Len(history) - HistoryLimit /\ history[i].from = "mind"}

Replies(t) == {i \in RepliesOfAnyAge(t) : i > after[t]}

(* A poll of _wait_for_reply that finds rows takes the first of them.      *)
FirstReply(t, i) ==
    /\ at[t] = "wait"
    /\ i \in Replies(t)
    /\ \A j \in Replies(t) : i <= j

TakeMessage(t) ==
    /\ KindOf[t] = "message"
    /\ \E i \in DOMAIN history : FirstReply(t, i) /\ End(t, "reply", i)
    /\ UNCHANGED <<service, after, notes, faults>>

(* A reply to generate_assets is a JSON asset list that can be used, or    *)
(* raises ValueError.                                                      *)
TakeAssets(t) ==
    /\ KindOf[t] = "generate"
    /\ \E i \in DOMAIN history, result \in {"assets", "local"} :
           FirstReply(t, i) /\ End(t, result, i)
    /\ UNCHANGED <<service, after, notes, faults>>

(* The time limit is compared only after a poll that found nothing.        *)
TimeOutIfAnswered(t) ==
    /\ at[t] = "wait" /\ Replies(t) = {} /\ t \notin Unanswered
    /\ End(t, Fallback(t), 0)
    /\ UNCHANGED <<service, after, notes, faults>>

TimeOut(t) ==
    /\ at[t] = "wait" /\ Replies(t) = {}
    /\ End(t, Fallback(t), 0)
    /\ UNCHANGED <<service, after, notes, faults>>

Progress(t) ==
    \/ Ensure(t) \/ AliasTaken(t)
    \/ Latest(t)
    \/ Post(t)
    \/ TakeMessage(t) \/ TakeAssets(t) \/ TimeOut(t)

Faults(t) ==
    \/ LatestFails(t) \/ PostLost(t)
    \/ \E transport \in BOOLEAN : RequestFails(t, transport)

Next ==
    \E t \in Turns :
        \/ Start(t) \/ Progress(t) \/ Faults(t) \/ MindAnswers(t)

Spec == Init /\ [][Next]_vars

(* The client's coroutines are scheduled, its requests and sleeps end.     *)
(* Neither new turns nor answers of the Mind are owed.                     *)
FairSpec == Spec /\ \A t \in Turns : WF_vars(Progress(t))

(***************************************************************************)
(* Properties                                                              *)
(***************************************************************************)

TypeOK ==
    /\ history \in Seq(Rows)
    /\ bound \in Minds \cup {NoMind}
    /\ at \in [Turns -> Steps \cup {"new", "done"}]
    /\ after \in [Turns -> Nat]
    /\ outcome \in [Turns -> {"none", "reply", "assets", "local", "failed", "error"}]
    /\ reply \in [Turns -> Nat]
    /\ \A t \in Turns : reply[t] # 0 => reply[t] \in DOMAIN history
    /\ quiet \in [Turns -> BOOLEAN]
    /\ served \in [Turns -> SUBSET Nat]
    /\ faults \in 0..MaxFaults

(* A reply is handed to the turn it answers, unless, when the turn looked  *)
(* for the latest fingerprint, an earlier message was still unanswered or  *)
(* the request failed, or another message was posted before the turn       *)
(* ended.                                                                  *)
QuietTurnsGetTheirReply ==
    \A t \in Turns : quiet[t] /\ reply[t] # 0 => history[reply[t]].turn = t

(* A reply that was handed out before a turn asked for the latest          *)
(* fingerprint is handed to that turn as well only if the request for it   *)
(* failed, so that the turn has none and filters nothing: late replies and *)
(* concurrent turns alone never repeat one.  (Two turns open at once may   *)
(* get one reply.)                                                         *)
RepliesRepeatOnlyUnfiltered ==
    \A t \in Turns : reply[t] \in served[t] => after[t] = 0

(* What a turn hands to its caller was said by the caller's own Mind: the  *)
(* alias is bound to one Mind, and turns of other authors' Minds stop      *)
(* before they post.                                                       *)
RepliesOfOwnMind ==
    \A i \in DOMAIN history : MindOf[history[i].turn] = bound

(* Every turn ends, whether or not the Mind answers.                       *)
TurnsEnd == \A t \in Turns : t \in Open ~> t \notin Open

=============================================================================
