----------------------------- MODULE MindsProofs -----------------------------
(***************************************************************************)
(* Proofs about MindsChat: which reply a turn may get, for every set of    *)
(* turns, every Mind and history limit and any number of open turns and    *)
(* failures.                                                               *)
(***************************************************************************)
EXTENDS MindsChat, WellFoundedInduction, TLAPS

(***************************************************************************)
(* The inductive invariant.                                                *)
(***************************************************************************)

(* Replies that were handed out before a turn asked for its fingerprint    *)
(* are older than the rows it looks at, if it got one, and what it takes   *)
(* is newer.                                                               *)
Fingerprinted(t) ==
    /\ after[t] <= Len(history)
    /\ at[t] \in {"new", "ensure", "latest"} => after[t] = 0
    /\ \A i \in served[t] : 0 < i /\ (after[t] # 0 => i <= after[t])
    /\ reply[t] # 0 => reply[t] > after[t] /\ at[t] = "done"

(* A turn past ensure_conversation talks to its own Mind. *)
OwnMind(t) == at[t] \in {"latest", "post", "wait"} => bound = MindOf[t]

(* Nothing but a quiet turn's own message can be answered: no message is   *)
(* open when it posts, and what comes after its fingerprint is its own.    *)
Undisturbed(t) ==
    quiet[t] =>
        /\ at[t] \in {"post", "wait", "done"}
        /\ at[t] = "post" => Unanswered = {} /\ after[t] = Len(history)
        /\ at[t] = "wait" =>
            /\ Unanswered \subseteq {t}
            /\ \A i \in DOMAIN history : i > after[t] => history[i].turn = t
        /\ reply[t] # 0 => history[reply[t]].turn = t

ChatInv ==
    /\ TypeOK
    /\ RepliesOfOwnMind
    /\ \A t \in Turns : Fingerprinted(t) /\ OwnMind(t) /\ Undisturbed(t)

(* The steps of a turn before its message. *)
OnItsWay(t) == Start(t) \/ Ensure(t) \/ Latest(t) \/ LatestFails(t)

(***************************************************************************)
(* The conversation.                                                       *)
(***************************************************************************)

(* A message adds at most its turn to the unanswered ones.                 *)
LEMMA MessageUnanswered ==
    ASSUME history \in Seq(Rows), NEW t \in Turns,
           history' = Append(history, [from |-> "human", turn |-> t])
    PROVE  Unanswered' \subseteq Unanswered \cup {t}
    BY DEF Unanswered, Rows

(* An answer adds none.                                                    *)
LEMMA AnswerUnanswered ==
    ASSUME history \in Seq(Rows), NEW t \in Turns,
           history' = Append(history, [from |-> "mind", turn |-> t])
    PROVE  Unanswered' \subseteq Unanswered
    BY DEF Unanswered, Rows

(* Only a message that is in the conversation is answered.                 *)
LEMMA UnansweredWasSent ==
    ASSUME NEW t \in Unanswered
    PROVE  \E i \in DOMAIN history : history[i].turn = t
    BY DEF Unanswered

(* The rows of the conversation stay what they are.                        *)
LEMMA RowsStay ==
    ASSUME history \in Seq(Rows), NEW row \in Rows, history' = Append(history, row)
    PROVE  /\ history' \in Seq(Rows) /\ Len(history') = Len(history) + 1
           /\ DOMAIN history' = DOMAIN history \cup {Len(history) + 1}
           /\ \A i \in DOMAIN history : history'[i] = history[i]
           /\ history'[Len(history) + 1] = row
    OBVIOUS

(***************************************************************************)
(* The steps.                                                              *)
(***************************************************************************)

(* An empty conversation, and turns that have not begun.                   *)
LEMMA ChatInit == Init => ChatInv
<1> SUFFICES ASSUME Init PROVE ChatInv
    OBVIOUS
<1>1. TypeOK
    BY ChatAssumption DEF Init, TypeOK, Rows, Steps
<1>2. ASSUME NEW t \in Turns PROVE Fingerprinted(t) /\ OwnMind(t) /\ Undisturbed(t)
    BY <1>2 DEF Init, Fingerprinted, OwnMind, Undisturbed
<1>3. RepliesOfOwnMind
    BY DEF Init, RepliesOfOwnMind
<1> QED
    BY <1>1, <1>2, <1>3 DEF ChatInv

(* Every step keeps the types.                                             *)
LEMMA ChatTypeNext == TypeOK /\ [Next]_vars => TypeOK'
<1> SUFFICES ASSUME TypeOK, [Next]_vars PROVE TypeOK'
    OBVIOUS
<1>1. ASSUME NEW t \in Turns, OnItsWay(t) PROVE TypeOK'
    <2>1. CASE Start(t)
        BY <2>1 DEF Start, TypeOK, Steps, service, results, notes
    <2>2. CASE Ensure(t)
        BY <2>2, ChatAssumption DEF Ensure, TypeOK, Steps, results, notes
    <2>3. CASE Latest(t)
        BY <2>3 DEF Latest, ReadLatest, AskLatest, TypeOK, Steps, service, results
    <2>4. CASE LatestFails(t)
        BY <2>4, ChatAssumption DEF LatestFails, AskLatest, TypeOK, Steps, service, results
    <2> QED
        BY <1>1, <2>1, <2>2, <2>3, <2>4 DEF OnItsWay
<1>2. ASSUME NEW t \in Turns, NEW row \in Rows, history' = Append(history, row)
      PROVE  history' \in Seq(Rows) /\ \A i \in DOMAIN history : i \in DOMAIN history'
    BY <1>2, RowsStay DEF TypeOK
<1>3. ASSUME NEW t \in Turns, Post(t) PROVE TypeOK'
    <2>1. history' \in Seq(Rows) /\ \A i \in DOMAIN history : i \in DOMAIN history'
        BY <1>2, <1>3 DEF Post, Deliver, Rows
    <2> QED
        BY <1>3, <2>1 DEF Post, Deliver, TypeOK, Steps, results
<1>4. ASSUME NEW t \in Turns, PostLost(t) PROVE TypeOK'
    <2>1. history' \in Seq(Rows) /\ \A i \in DOMAIN history : i \in DOMAIN history'
        BY <1>2, <1>4 DEF PostLost, Deliver, Rows
    <2> QED
        BY <1>4, <2>1, ChatAssumption DEF PostLost, Deliver, End, TypeOK, Steps
<1>5. ASSUME NEW t \in Turns, MindAnswers(t) PROVE TypeOK'
    <2>1. history' \in Seq(Rows) /\ \A i \in DOMAIN history : i \in DOMAIN history'
        BY <1>2, <1>5 DEF MindAnswers, Rows
    <2> QED
        BY <1>5, <2>1 DEF MindAnswers, TypeOK, locals, results, notes
<1>6. ASSUME NEW t \in Turns, NEW row \in {0} \cup DOMAIN history,
             NEW result \in {"reply", "assets", "local", "failed", "error"},
             End(t, result, row), UNCHANGED <<service, after, notes>>, faults' \in 0..MaxFaults
      PROVE  TypeOK'
    BY <1>6 DEF End, TypeOK, service, notes
<1>7. ASSUME NEW t \in Turns, AliasTaken(t) \/ TimeOut(t) PROVE TypeOK'
    BY <1>6, <1>7 DEF AliasTaken, TimeOut, Fallback, TypeOK
<1>8. ASSUME NEW t \in Turns, TakeMessage(t) \/ TakeAssets(t) PROVE TypeOK'
    BY <1>6, <1>8 DEF TakeMessage, TakeAssets, TypeOK
<1>9. ASSUME NEW t \in Turns, NEW transport \in BOOLEAN, RequestFails(t, transport)
      PROVE  TypeOK'
    <2>1. faults' \in 0..MaxFaults
        BY <1>9, ChatAssumption DEF RequestFails, TypeOK
    <2> QED
        BY <1>6, <1>9, <2>1 DEF RequestFails, Fallback
<1>10. CASE UNCHANGED vars
    BY <1>10 DEF vars, service, locals, results, notes, TypeOK
<1> QED
    BY <1>1, <1>3, <1>4, <1>5, <1>7, <1>8, <1>9, <1>10 DEF Next, Progress, Faults, OnItsWay

(* The fingerprint of a turn separates what was handed out before it from  *)
(* what the turn takes.                                                    *)
LEMMA FingerprintedNext ==
    ChatInv /\ [Next]_vars => (\A u \in Turns : Fingerprinted(u))'
<1> SUFFICES ASSUME ChatInv, [Next]_vars, NEW u \in Turns PROVE Fingerprinted(u)'
    OBVIOUS
<1>0. /\ TypeOK /\ Fingerprinted(u) /\ \A t \in Turns : Fingerprinted(t)
      /\ history \in Seq(Rows)
    BY DEF ChatInv, TypeOK
<1>1. ASSUME NEW row \in Rows, history' = Append(history, row) PROVE Len(history') > Len(history)
    BY <1>0, <1>1, RowsStay
<1>2. ASSUME NEW t \in Turns, Start(t) \/ Ensure(t) PROVE Fingerprinted(u)'
    BY <1>0, <1>2 DEF Start, Ensure, TypeOK, Fingerprinted, service, results, notes
<1>3. ASSUME NEW t \in Turns, Latest(t) PROVE Fingerprinted(u)'
    <2>1. \A v \in Turns : reply[v] # 0 => 0 < reply[v] /\ reply[v] <= Len(history)
        BY <1>0 DEF TypeOK
    <2>2. CASE u = t
        BY <1>0, <1>3, <2>1, <2>2
        DEF Latest, ReadLatest, AskLatest, TypeOK, Fingerprinted, service, results
    <2>3. CASE u # t
        BY <1>0, <1>3, <2>3
        DEF Latest, ReadLatest, AskLatest, TypeOK, Fingerprinted, service, results
    <2> QED
        BY <2>2, <2>3
<1>12. ASSUME NEW t \in Turns, LatestFails(t) PROVE Fingerprinted(u)'
    <2>0. \A v \in Turns : reply[v] # 0 => 0 < reply[v]
        BY <1>0 DEF TypeOK
    <2>1. u = t => after[u] = 0
        BY <1>0, <1>12 DEF LatestFails, AskLatest, Fingerprinted
    <2> QED
        BY <1>0, <1>12, <2>0, <2>1
        DEF LatestFails, AskLatest, TypeOK, Fingerprinted, service, results
<1>4. ASSUME NEW t \in Turns, Post(t) PROVE Fingerprinted(u)'
    <2>1. Len(history') > Len(history)
        BY <1>1, <1>4 DEF Post, Deliver, Rows
    <2> QED
        BY <1>0, <1>4, <2>1 DEF Post, Deliver, TypeOK, Fingerprinted, results
<1>5. ASSUME NEW t \in Turns, PostLost(t) PROVE Fingerprinted(u)'
    <2>1. Len(history') > Len(history)
        BY <1>1, <1>5 DEF PostLost, Deliver, Rows
    <2> QED
        BY <1>0, <1>5, <2>1 DEF PostLost, Deliver, End, TypeOK, Fingerprinted
<1>6. ASSUME NEW t \in Turns, MindAnswers(t) PROVE Fingerprinted(u)'
    <2>1. Len(history') > Len(history)
        BY <1>1, <1>6 DEF MindAnswers, Rows
    <2> QED
        BY <1>0, <1>6, <2>1 DEF MindAnswers, TypeOK, Fingerprinted, locals, results, notes
<1>7. ASSUME NEW t \in Turns, NEW result, NEW row, End(t, result, row),
             UNCHANGED <<service, after, notes>>, row = 0 \/ row > after[t]
      PROVE  Fingerprinted(u)'
    BY <1>0, <1>7 DEF End, TypeOK, Fingerprinted, service, notes
<1>8. ASSUME NEW t \in Turns, AliasTaken(t) \/ TimeOut(t) PROVE Fingerprinted(u)'
    BY <1>7, <1>8 DEF AliasTaken, TimeOut
<1>9. ASSUME NEW t \in Turns, TakeMessage(t) \/ TakeAssets(t) PROVE Fingerprinted(u)'
    BY <1>7, <1>9 DEF TakeMessage, TakeAssets, FirstReply, Replies
<1>10. ASSUME NEW t \in Turns, NEW transport \in BOOLEAN, RequestFails(t, transport)
       PROVE  Fingerprinted(u)'
    BY <1>7, <1>10 DEF RequestFails
<1>11. CASE UNCHANGED vars
    BY <1>0, <1>11 DEF vars, service, locals, results, notes, Fingerprinted
<1> QED
    BY <1>2, <1>3, <1>4, <1>5, <1>6, <1>8, <1>9, <1>10, <1>11, <1>12 DEF Next, Progress, Faults

(* The alias is bound once, and only turns for its Mind write to it.       *)
LEMMA OwnMindNext ==
    ChatInv /\ [Next]_vars => RepliesOfOwnMind' /\ (\A u \in Turns : OwnMind(u))'
<1> SUFFICES ASSUME ChatInv, [Next]_vars
             PROVE  RepliesOfOwnMind' /\ (\A u \in Turns : OwnMind(u))'
    OBVIOUS
<1> DEFINE P == RepliesOfOwnMind' /\ (\A u \in Turns : OwnMind(u))'
<1>0. /\ RepliesOfOwnMind /\ (\A u \in Turns : OwnMind(u))
      /\ history \in Seq(Rows) /\ at \in [Turns -> Steps \cup {"new", "done"}]
    BY DEF ChatInv, TypeOK
<1>1. ASSUME NEW t \in Turns, NEW who \in {"human", "mind"}, MindOf[t] = bound,
             history' = Append(history, [from |-> who, turn |-> t]), bound' = bound
      PROVE  RepliesOfOwnMind'
    <2>1. [from |-> who, turn |-> t] \in Rows
        BY DEF Rows
    <2>2. \A i \in DOMAIN history' :
            \/ i \in DOMAIN history /\ history'[i] = history[i]
            \/ history'[i].turn = t
        BY <1>0, <1>1, <2>1, RowsStay
    <2> QED
        BY <1>0, <1>1, <2>2 DEF RepliesOfOwnMind
<1>2. ASSUME NEW t \in Turns, NEW label \in {"ensure", "post", "wait", "done"},
             at' = [at EXCEPT ![t] = label], bound' = bound,
             label \in {"post", "wait"} => at[t] \in {"latest", "post"}
      PROVE  (\A u \in Turns : OwnMind(u))'
    BY <1>0, <1>2 DEF OwnMind
<1>3. bound' = bound /\ history' = history => RepliesOfOwnMind'
    BY <1>0 DEF RepliesOfOwnMind
<1>4. ASSUME NEW t \in Turns, Start(t) PROVE P
    BY <1>2, <1>3, <1>4 DEF Start, service
<1>5. ASSUME NEW t \in Turns, Ensure(t) PROVE P
    <2>1. bound = NoMind => history = <<>>
        <3>1. \A i \in DOMAIN history : history[i].turn \in Turns
            <4>1. \A i \in DOMAIN history : history[i] \in Rows
                BY <1>0
            <4> QED
                BY <4>1 DEF Rows
        <3>2. bound = NoMind => DOMAIN history = {}
            BY <1>0, <3>1, ChatAssumption DEF RepliesOfOwnMind
        <3> QED
            BY <1>0, <3>2
    <2>2. RepliesOfOwnMind'
        BY <1>0, <1>5, <2>1 DEF Ensure, RepliesOfOwnMind
    <2>3. \A u \in Turns : at[u] \in {"latest", "post", "wait"} => bound # NoMind
        BY <1>0, ChatAssumption DEF OwnMind
    <2>4. (\A u \in Turns : OwnMind(u))'
        BY <1>0, <1>5, <2>3 DEF Ensure, OwnMind
    <2> QED
        BY <2>2, <2>4
<1>6. ASSUME NEW t \in Turns, Latest(t) \/ LatestFails(t) PROVE P
    BY <1>2, <1>3, <1>6 DEF Latest, ReadLatest, LatestFails, AskLatest, service
<1>7. ASSUME NEW t \in Turns, Post(t) \/ PostLost(t) PROVE P
    <2>1. MindOf[t] = bound
        BY <1>0, <1>7 DEF Post, PostLost, Deliver, OwnMind
    <2> QED
        BY <1>1, <1>2, <1>7, <2>1 DEF Post, PostLost, Deliver, End
<1>8. ASSUME NEW t \in Turns, MindAnswers(t) PROVE P
    <2>1. MindOf[t] = bound
        BY <1>0, <1>8, UnansweredWasSent DEF MindAnswers, RepliesOfOwnMind
    <2> QED
        BY <1>0, <1>1, <1>8, <2>1 DEF MindAnswers, locals, OwnMind
<1>9. ASSUME NEW t \in Turns,
             \/ AliasTaken(t) \/ TimeOut(t) \/ TakeMessage(t) \/ TakeAssets(t)
             \/ \E transport \in BOOLEAN : RequestFails(t, transport)
      PROVE  P
    <2>1. at' = [at EXCEPT ![t] = "done"] /\ UNCHANGED service
        BY <1>9 DEF AliasTaken, TimeOut, TakeMessage, TakeAssets, RequestFails, End
    <2> QED
        BY <1>2, <1>3, <2>1 DEF service
<1>10. CASE UNCHANGED vars
    BY <1>0, <1>3, <1>10 DEF vars, service, locals, OwnMind
<1> QED
    BY <1>4, <1>5, <1>6, <1>7, <1>8, <1>9, <1>10 DEF Next, Progress, Faults

(* A quiet turn stays so, with only its own message to be answered, until  *)
(* another message is posted.                                              *)
LEMMA UndisturbedNext ==
    ChatInv /\ [Next]_vars => (\A u \in Turns : Undisturbed(u))'
<1> SUFFICES ASSUME ChatInv, [Next]_vars, NEW u \in Turns PROVE Undisturbed(u)'
    OBVIOUS
<1>0. /\ TypeOK /\ Undisturbed(u) /\ Fingerprinted(u)
      /\ history \in Seq(Rows) /\ at \in [Turns -> Steps \cup {"new", "done"}]
      /\ after \in [Turns -> Nat] /\ reply \in [Turns -> Nat] /\ quiet \in [Turns -> BOOLEAN]
      /\ reply[u] # 0 => reply[u] \in DOMAIN history
    BY DEF ChatInv, TypeOK
<1>1. history' = history => Unanswered' = Unanswered
    BY DEF Unanswered
<1>2. ASSUME NEW t \in Turns, Start(t) \/ Ensure(t) \/ LatestFails(t) PROVE Undisturbed(u)'
    BY <1>0, <1>1, <1>2
    DEF Start, Ensure, LatestFails, AskLatest, Undisturbed, service, results, notes
<1>3. ASSUME NEW t \in Turns, Latest(t) PROVE Undisturbed(u)'
    <2>1. CASE u = t
        <3>1. reply[u] = 0
            BY <1>3, <2>1, <1>0 DEF Fingerprinted, Latest, ReadLatest, AskLatest
        <3> QED
            BY <1>0, <1>1, <1>3, <2>1, <3>1
            DEF Latest, ReadLatest, AskLatest, Undisturbed, service, results
    <2>2. CASE u # t
        BY <1>0, <1>1, <1>3, <2>2 DEF Latest, ReadLatest, AskLatest, Undisturbed, service, results
    <2> QED
        BY <2>1, <2>2
<1>4. ASSUME NEW t \in Turns, Deliver(t), u # t, at'[u] = at[u], after'[u] = after[u],
             reply'[u] = reply[u]
      PROVE  Undisturbed(u)'
    <2>1. [from |-> "human", turn |-> t] \in Rows
        BY DEF Rows
    <2>2. \A i \in DOMAIN history : history'[i] = history[i]
        BY <1>0, <1>4, <2>1, RowsStay DEF Deliver
    <2>3. quiet'[u] => quiet[u] /\ at[u] \notin Steps
        BY <1>0, <1>4 DEF Deliver, Open
    <2> QED
        BY <1>0, <1>4, <2>2, <2>3 DEF Undisturbed, Steps
<1>5. ASSUME NEW t \in Turns, Post(t) PROVE Undisturbed(u)'
    <2>1. CASE u = t
        <3>1. [from |-> "human", turn |-> t] \in Rows
            BY DEF Rows
        <3>2. /\ DOMAIN history' = DOMAIN history \cup {Len(history) + 1}
              /\ history'[Len(history) + 1].turn = t
            BY <1>0, <1>5, <3>1, RowsStay DEF Post, Deliver
        <3>3. Unanswered' \subseteq Unanswered \cup {t}
            BY <1>0, <1>5, MessageUnanswered DEF Post, Deliver
        <3>4. reply'[u] = 0 /\ after'[u] = after[u] /\ at'[u] = "wait"
            BY <1>0, <1>5, <2>1 DEF Fingerprinted, Post, Deliver, results
        <3>5. quiet'[u] => Unanswered = {} /\ after[u] = Len(history)
            BY <1>0, <1>5, <2>1 DEF Post, Deliver, Undisturbed
        <3>6. quiet'[u] => \A i \in DOMAIN history' : i > after[u] => i = Len(history) + 1
            BY <1>0, <3>2, <3>5
        <3> QED
            BY <2>1, <3>2, <3>3, <3>4, <3>5, <3>6 DEF Undisturbed
    <2>2. CASE u # t
        BY <1>0, <1>4, <1>5, <2>2 DEF Post, results
    <2> QED
        BY <2>1, <2>2
<1>6. ASSUME NEW t \in Turns, PostLost(t) PROVE Undisturbed(u)'
    <2>1. CASE u = t
        BY <1>0, <1>6, <2>1 DEF PostLost, End, Undisturbed
    <2>2. CASE u # t
        BY <1>0, <1>4, <1>6, <2>2 DEF PostLost, End
    <2> QED
        BY <2>1, <2>2
<1>7. ASSUME NEW t \in Turns, MindAnswers(t) PROVE Undisturbed(u)'
    <2>1. [from |-> "mind", turn |-> t] \in Rows /\ t \in Unanswered
        BY <1>7 DEF MindAnswers, Rows
    <2>2. /\ DOMAIN history' = DOMAIN history \cup {Len(history) + 1}
          /\ \A i \in DOMAIN history : history'[i] = history[i]
          /\ history'[Len(history) + 1].turn = t
        BY <1>0, <1>7, <2>1, RowsStay DEF MindAnswers
    <2>3. Unanswered' \subseteq Unanswered
        BY <1>0, <1>7, AnswerUnanswered DEF MindAnswers
    <2>4. UNCHANGED <<at, after, reply, quiet>>
        BY <1>7 DEF MindAnswers, locals, results, notes
    <2>5. quiet[u] => at[u] # "post"
        BY <1>0, <2>1 DEF Undisturbed
    <2>6. quiet[u] /\ at[u] = "wait" => t = u
        BY <1>0, <2>1 DEF Undisturbed
    <2> QED
        BY <1>0, <2>2, <2>3, <2>4, <2>5, <2>6 DEF Undisturbed
<1>8. ASSUME NEW t \in Turns, NEW result, NEW row, End(t, result, row),
             UNCHANGED <<service, after, notes>>,
             quiet[t] /\ row # 0 => history[row].turn = t
      PROVE  Undisturbed(u)'
    BY <1>0, <1>1, <1>8 DEF End, Undisturbed, service, notes
<1>9. ASSUME NEW t \in Turns, AliasTaken(t) \/ TimeOut(t) PROVE Undisturbed(u)'
    BY <1>8, <1>9 DEF AliasTaken, TimeOut
<1>10. ASSUME NEW t \in Turns, NEW i \in DOMAIN history, FirstReply(t, i), quiet[t]
       PROVE  history[i].turn = t
    BY <1>10 DEF ChatInv, FirstReply, Replies, Undisturbed
<1>11. ASSUME NEW t \in Turns, TakeMessage(t) \/ TakeAssets(t) PROVE Undisturbed(u)'
    BY <1>8, <1>10, <1>11 DEF TakeMessage, TakeAssets
<1>12. ASSUME NEW t \in Turns, NEW transport \in BOOLEAN, RequestFails(t, transport)
       PROVE  Undisturbed(u)'
    BY <1>8, <1>12 DEF RequestFails
<1>13. CASE UNCHANGED vars
    BY <1>0, <1>1, <1>13 DEF vars, service, locals, results, notes, Undisturbed
<1> QED
    BY <1>2, <1>3, <1>5, <1>6, <1>7, <1>9, <1>11, <1>12, <1>13 DEF Next, Progress, Faults

(***************************************************************************)
(* The theorems.                                                           *)
(***************************************************************************)

(* Types, fingerprints, the binding of the alias and the quiet turns,      *)
(* together inductive (MindsClient.message).                               *)
THEOREM ChatInvariant == Spec => []ChatInv
<1>1. ChatInv /\ [Next]_vars => ChatInv'
    BY ChatTypeNext, FingerprintedNext, OwnMindNext, UndisturbedNext DEF ChatInv
<1> QED
    BY <1>1, ChatInit, PTL DEF Spec

(* The conversation and the turns keep their types.                        *)
THEOREM ChatTypes == Spec => []TypeOK
    BY ChatInvariant, PTL DEF ChatInv

(* Whatever comes late and whoever else is talking, a turn is handed a     *)
(* reply that was handed out before it asked for the latest fingerprint    *)
(* only when that request failed: a turn with a fingerprint never is.      *)
THEOREM FingerprintsStopRepeats == Spec => []RepliesRepeatOnlyUnfiltered
<1>1. ChatInv => RepliesRepeatOnlyUnfiltered
    <2> SUFFICES ASSUME ChatInv, NEW t \in Turns, reply[t] \in served[t], after[t] # 0
                 PROVE  FALSE
        BY DEF RepliesRepeatOnlyUnfiltered
    <2>1. Fingerprinted(t) /\ reply[t] \in Nat /\ after[t] \in Nat
        BY DEF ChatInv, TypeOK
    <2>2. 0 < reply[t] /\ reply[t] <= after[t]
        BY <2>1 DEF Fingerprinted
    <2> QED
        BY <2>1, <2>2 DEF Fingerprinted
<1> QED
    BY <1>1, ChatInvariant, PTL

(* A turn that nothing disturbs gets the reply to its own message.         *)
THEOREM QuietTurnsAnswered == Spec => []QuietTurnsGetTheirReply
<1>1. ChatInv => QuietTurnsGetTheirReply
    BY DEF ChatInv, Undisturbed, QuietTurnsGetTheirReply
<1> QED
    BY <1>1, ChatInvariant, PTL

(* The conversation is only ever with the Mind the alias is bound to.      *)
THEOREM OneMindPerAlias == Spec => []RepliesOfOwnMind
    BY ChatInvariant, PTL DEF ChatInv

(***************************************************************************)
(* Turns end.                                                              *)
(***************************************************************************)

(* What WF_vars(Progress(t)) amounts to, as an open turn always has a step *)
(* (OpenTurnsCanProceed) and every one of them moves it on.                *)
TurnRuns(t) == []<>~(t \in Open) \/ []<><<Progress(t)>>_vars

(* Fairness says so when an open turn always has a step.                   *)
LEMMA FairTurnRuns ==
    ASSUME NEW t \in Turns
    PROVE  WF_vars(Progress(t)) /\ [](t \in Open => ENABLED <<Progress(t)>>_vars) => TurnRuns(t)
    BY PTL DEF TurnRuns

(* The guards of Progress, for each step of an open turn: its alias is free, *)
(* its own or another's, and a poll finds a first reply or none.           *)
CanProceed(t) ==
    \/ at[t] = "ensure" /\ bound \in {NoMind, MindOf[t]}
    \/ at[t] = "ensure" /\ bound \notin {NoMind, MindOf[t]}
    \/ at[t] \in {"latest", "post"}
    \/ at[t] = "wait" /\ Replies(t) = {}
    \/ \E i \in DOMAIN history : FirstReply(t, i)

(* An open turn has a step whatever the Mind, the other turns and the      *)
(* service's failures have done.                                           *)
THEOREM OpenTurnsCanProceed == Spec => [](\A t \in Open : CanProceed(t))
<1>1. ASSUME TypeOK, NEW t \in Open PROVE CanProceed(t)
    <2>1. CASE at[t] = "wait" /\ Replies(t) # {}
        <3>1. Replies(t) \subseteq DOMAIN history /\ DOMAIN history \subseteq Nat
            BY DEF Replies, RepliesOfAnyAge, TypeOK
        <3>2. \E i \in Replies(t) : \A j \in Replies(t) : ~(<<j, i>> \in OpToRel(<, Nat))
            BY <2>1, <3>1, NatLessThanWellFounded, WFMin
        <3>3. PICK i \in Replies(t) : \A j \in Replies(t) : ~(<<j, i>> \in OpToRel(<, Nat))
            BY <3>2
        <3>4. ASSUME NEW j \in Replies(t) PROVE i <= j
            <4>1. i \in Nat /\ j \in Nat
                BY <3>1
            <4>2. ~(<<j, i>> \in OpToRel(<, Nat))
                BY <3>3
            <4>3. ~(j < i)
                BY <4>1, <4>2 DEF OpToRel
            <4> QED
                BY <4>1, <4>3
        <3>5. i \in DOMAIN history /\ FirstReply(t, i)
            BY <2>1, <3>1, <3>4 DEF FirstReply
        <3> QED
            BY <3>5 DEF CanProceed
    <2>2. at[t] \in Steps
        BY DEF Open
    <2> QED
        BY <2>1, <2>2 DEF CanProceed, Steps
<1>2. TypeOK => \A t \in Open : CanProceed(t)
    BY <1>1
<1> QED
    BY <1>2, ChatTypes, PTL

(* A turn only moves forward, and each step of its own moves it.           *)
LEMMA TurnMoves ==
    ASSUME TypeOK, NEW t \in Turns, [Next]_vars
    PROVE  /\ at[t] = "ensure" => at'[t] \in {"ensure", "latest", "done"}
           /\ at[t] = "latest" => at'[t] \in {"latest", "post", "done"}
           /\ at[t] = "post" => at'[t] \in {"post", "wait", "done"}
           /\ at[t] = "wait" => at'[t] \in {"wait", "done"}
           /\ Progress(t) => at'[t] # at[t]
<1>1. Progress(t) => at[t] \in Steps /\ at'[t] # at[t]
    BY DEF TypeOK, Progress, Ensure, AliasTaken, Latest, ReadLatest, AskLatest, Post, Deliver,
           TakeMessage, TakeAssets, TimeOut, End, FirstReply, Steps
<1>2. ASSUME NEW u \in Turns,
             Start(u) \/ Progress(u) \/ Faults(u) \/ MindAnswers(u)
      PROVE  \/ UNCHANGED at
             \/ \E there :
                /\ at' = [at EXCEPT ![u] = there]
                /\ at[u] = "new" \/ <<at[u], there>> \in
                    {<<"ensure", "latest">>, <<"latest", "post">>, <<"post", "wait">>,
                     <<"ensure", "done">>, <<"latest", "done">>, <<"post", "done">>,
                     <<"wait", "done">>}
    BY <1>2 DEF Start, Progress, Ensure, AliasTaken, Latest, ReadLatest, AskLatest, Post, Deliver,
           TakeMessage, TakeAssets, TimeOut, End, FirstReply, Faults, LatestFails, PostLost, RequestFails,
           MindAnswers, locals
<1>3. UNCHANGED at \/ \E u \in Turns : Start(u) \/ Progress(u) \/ Faults(u) \/ MindAnswers(u)
    BY DEF Next, vars, locals
<1> QED
    BY <1>1, <1>2, <1>3 DEF TypeOK

(* A turn that keeps being given its steps ends, whatever the other turns  *)
(* and the Mind do.                                                        *)
LEMMA TurnEnds ==
    ASSUME NEW t \in Turns
    PROVE  Spec /\ TurnRuns(t) => (t \in Open ~> ~(t \in Open))
<1>1. t \in Open <=> at[t] = "ensure" \/ at[t] = "latest" \/ at[t] = "post" \/ at[t] = "wait"
    BY DEF Open, Steps
<1>2. TypeOK /\ [Next]_vars =>
        /\ at[t] = "wait" => (at[t] = "wait")' \/ ~((t \in Open)')
        /\ at[t] = "post" => (at[t] = "post")' \/ (at[t] = "wait")' \/ ~((t \in Open)')
        /\ at[t] = "latest" => (at[t] = "latest")' \/ (at[t] = "post")' \/ ~((t \in Open)')
        /\ at[t] = "ensure" => (at[t] = "ensure")' \/ (at[t] = "latest")' \/ ~((t \in Open)')
    BY TurnMoves DEF Open, Steps
<1>3. TypeOK /\ [Next]_vars /\ <<Progress(t)>>_vars =>
        /\ at[t] = "wait" => ~((at[t] = "wait")')
        /\ at[t] = "post" => ~((at[t] = "post")')
        /\ at[t] = "latest" => ~((at[t] = "latest")')
        /\ at[t] = "ensure" => ~((at[t] = "ensure")')
    BY TurnMoves
<1> QED
    BY <1>1, <1>2, <1>3, ChatTypes, PTL DEF Spec, TurnRuns

(* Every turn ends, for any number of turns, Minds and failures, whether   *)
(* or not the Mind ever answers, under what the fairness of the run gives. *)
THEOREM EveryTurnEnds == Spec /\ (\A t \in Turns : TurnRuns(t)) => TurnsEnd
<1>1. \A t \in Turns : Spec /\ TurnRuns(t) => (t \in Open ~> t \notin Open)
    <2> TAKE t \in Turns
    <2>1. Spec /\ TurnRuns(t) => (t \in Open ~> ~(t \in Open))
        BY TurnEnds
    <2>2. ~(t \in Open) <=> t \notin Open
        OBVIOUS
    <2> QED
        BY <2>1, <2>2, PTL
<1> QED
    BY <1>1 DEF TurnsEnd
=============================================================================
