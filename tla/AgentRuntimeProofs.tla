-------------------------- MODULE AgentRuntimeProofs --------------------------
(***************************************************************************)
(* Proofs about AgentRuntime, for any number of runs, confirmations,       *)
(* processes and tools, any lease and any length of the history.           *)
(*                                                                         *)
(* IInv holds whatever identifiers the requests take the lease under: a    *)
(* run that has its process's session is alone in it (RunOK), its tool     *)
(* calls are under way only while it calls tools, what a request was told  *)
(* came at its end (RequestOK), and a memory is a faithful one plus the    *)
(* turn of the active run, whose checkpoint is where that turn begins      *)
(* (MemoryOK): a rollback finds what the run found.                        *)
(*                                                                         *)
(* What the lease promises takes one thing more, that no two requests take *)
(* it under one run identifier: then the lease is its holder's (LeaseInv). *)
(* Two confirmations of one action lose it (AgentRuntimeShared.cfg).  For  *)
(* the transcript it is enough that no other request has the identifier of *)
(* a run (IsolatedInv).                                                    *)
(***************************************************************************)
EXTENDS AgentRuntime, SequenceTheorems, TLAPS

\* Every place of a request.
Place == {"idle", "acquiring", "loading", "restored", "leaving", "preparing", "starting",
          "prompting", "repairing", "appending", "announcing", "confirming", "executing",
          "closing", "ended", "crashed"}

\* Places of a run that is the active one of its process.
InSession == {"preparing", "starting", "prompting", "repairing", "appending", "announcing"}

\* Those it comes to before its turn.
Unprompted == {"preparing", "starting"}

\* Places a request has its outcome at.
Over == {"leaving", "closing", "ended", "crashed"}

\* Places a confirmation comes to.
Confirming == {"idle", "acquiring", "confirming", "executing", "closing", "ended", "crashed"}

\* Places before a run has its session.
Early == {"idle", "acquiring", "loading", "restored"}

\* The runs whose turns the database kept.
Kept == {transcript[i] : i \in 1..Len(transcript)}

\* What a request has been told, and what it has done.
RequestOK(x) ==
  /\ outcome[x] # "NONE" => pc[x] \in Over
  /\ pc[x] = "leaving" => outcome[x] # "SUCCEEDED"
  /\ outcome[x] = "SESSION_BUSY" /\ Committed(x) => x \in refused
  /\ x \in Confirm => pc[x] \in Confirming
  /\ x \in confirmed => pc[x] \in {"closing", "ended", "crashed"}

\* A run has the session of its process and is alone in it, and calls tools while it does.
RunOK(r) ==
  /\ pc[r] \in InSession <=> active[Session(r)] = r
  /\ pc[r] = "restored" => memory[Session(r)] # None
  /\ pc[r] \notin {"prompting", "repairing", "crashed"} => Idle(r)
  /\ pc[r] \in Early => ~Committed(r)

\* The turns agree with the outcomes, as far as the process p knows.
Faithful(p, turns) ==
  /\ Len(turns) <= HistoryLimit
  /\ \A i \in 1..Len(turns) : outcome[turns[i]] = "SUCCEEDED" \/ turns[i] \in Kept
  /\ \A r \in Kept : ProcessOf[r] = p /\ outcome[r] = "SUCCEEDED" =>
       Len(turns) = HistoryLimit \/ \E i \in 1..Len(turns) : turns[i] = r

\* A memory is faithful but for the turn of the active run, which starts at its checkpoint.
MemoryOK(p) ==
  /\ active[p] # None => ProcessOf[active[p]] = p /\ memory[p] # None
  /\ memory[p] # None =>
       \E settled \in Seq(Run) :
         /\ Faithful(p, settled)
         /\ active[p] = None => memory[p] = settled
         /\ active[p] # None =>
              /\ checkpoint[active[p]] = Len(settled)
              /\ memory[p] = IF pc[active[p]] \in Unprompted THEN settled
                             ELSE Append(settled, active[p])

\* The inductive invariant, whatever the owners.
IInv ==
  /\ TypeOK
  /\ \A x \in Request : RequestOK(x)
  /\ \A r \in Run : RunOK(r)
  /\ \A p \in Process : MemoryOK(p)

------------------------------------------------------------------------------
(* Sequences of turns.                                                     *)

\* Recent keeps as many of the turns as the history holds, all of them if it holds them.
LEMMA RecentTurns ==
  ASSUME NEW s \in Seq(Run)
  PROVE  /\ Recent(s) \in Seq(Run) /\ Len(Recent(s)) <= HistoryLimit
         /\ Len(s) <= HistoryLimit => Recent(s) = s
         /\ Len(s) > HistoryLimit => Len(Recent(s)) = HistoryLimit
         /\ \A i \in 1..Len(Recent(s)) : \E j \in 1..Len(s) : Recent(s)[i] = s[j]
<1>1. Len(s) \in Nat /\ HistoryLimit \in Nat \ {0}
  BY RuntimeAssumption, LenProperties
<1>2. CASE Len(s) <= HistoryLimit
  BY <1>1, <1>2 DEF Recent
<1>3. CASE Len(s) > HistoryLimit
  <2>1. PICK m \in 1..Len(s) : m = Len(s) - HistoryLimit + 1
    BY <1>1, <1>3
  <2>2. Recent(s) = SubSeq(s, m, Len(s))
    BY <1>1, <1>3, <2>1 DEF Recent
  <2>3. \A i \in m..Len(s) : s[i] \in Run
    BY <1>1, <2>1, ElementOfSeq
  <2>4. /\ Recent(s) \in Seq(Run)
        /\ Len(Recent(s)) = Len(s) - m + 1
        /\ \A i \in 1..(Len(s) - m + 1) : Recent(s)[i] = s[m + i - 1]
    BY <1>1, <2>1, <2>2, <2>3, SubSeqProperties
  <2>5. \A i \in 1..Len(Recent(s)) : Recent(s)[i] = s[m + i - 1] /\ m + i - 1 \in 1..Len(s)
    BY <1>1, <2>1, <2>4
  <2> QED BY <1>1, <1>3, <2>1, <2>4, <2>5
<1> QED BY <1>1, <1>2, <1>3

\* To cut a transcript at a checkpoint is to take back what was appended after it.
LEMMA TakenBack ==
  ASSUME NEW s \in Seq(Run), NEW r \in Run
  PROVE  SubSeq(s, 1, Len(s)) = s /\ SubSeq(Append(s, r), 1, Len(s)) = s
<1>1. SubSeq(s, 1, Len(s)) = s
  BY SubSeqFull
<1>2. /\ Append(s, r) \in Seq(Run) /\ Len(Append(s, r)) = Len(s) + 1 /\ Len(s) \in Nat
      /\ \A i \in 1..Len(s) : Append(s, r)[i] = s[i]
  BY LenProperties
<1>3. \A i \in 1..Len(s) : Append(s, r)[i] \in Run
  BY <1>2, ElementOfSeq
<1>4. /\ SubSeq(Append(s, r), 1, Len(s)) \in Seq(Run)
      /\ Len(SubSeq(Append(s, r), 1, Len(s))) = Len(s)
      /\ \A i \in 1..Len(s) : SubSeq(Append(s, r), 1, Len(s))[i] = Append(s, r)[i]
  <2> DEFINE t == Append(s, r)
             n == Len(s)
  <2>1. /\ SubSeq(t, 1, n) \in Seq(Run)
        /\ Len(SubSeq(t, 1, n)) = IF 1 <= n THEN n - 1 + 1 ELSE 0
        /\ \A i \in 1..(n - 1 + 1) : SubSeq(t, 1, n)[i] = t[1 + i - 1]
    <3> HIDE DEF t
    <3> QED BY <1>2, <1>3, SubSeqProperties DEF t
  <2> QED BY <1>2, <2>1
<1>5. SubSeq(Append(s, r), 1, Len(s)) = s
  BY <1>2, <1>4, SeqEqual
<1> QED BY <1>1, <1>5

\* Turns are faithful as long as no other run of the process succeeds with its turn kept.
LEMMA FaithfulStands ==
  ASSUME NEW p, NEW turns \in Seq(Run), Faithful(p, turns),
         \A r \in Run : outcome[r] = "SUCCEEDED" => outcome'[r] = "SUCCEEDED",
         Kept \subseteq Kept',
         \A r \in Kept' : ProcessOf[r] = p /\ outcome'[r] = "SUCCEEDED" =>
           r \in Kept /\ outcome[r] = "SUCCEEDED"
  PROVE  Faithful(p, turns)'
<1>1. \A i \in 1..Len(turns) : turns[i] \in Run
  BY ElementOfSeq
<1> QED BY <1>1 DEF Faithful

\* A step that appends the turn of a run, or nothing, keeps that run's turn at most.
LEMMA Appended ==
  ASSUME IInv, NEW r \in Run, transcript' \in {transcript, Append(transcript, r)}
  PROVE  /\ transcript' \in Seq(Run) /\ Kept' \in {Kept, Kept \cup {r}}
         /\ \A q \in Kept' : q \in Run
<1>1. transcript \in Seq(Run) /\ Len(transcript) \in Nat /\ \A q \in Kept : q \in Run
  <2>1. transcript \in Seq(Run)
    BY DEF IInv, TypeOK
  <2>2. Len(transcript) \in Nat
    BY <2>1, LenProperties
  <2>3. \A i \in 1..Len(transcript) : transcript[i] \in Run
    BY <2>1, ElementOfSeq
  <2> QED BY <2>1, <2>2, <2>3 DEF Kept
<1>2. CASE transcript' = transcript
  BY <1>1, <1>2 DEF Kept
<1>3. CASE transcript' = Append(transcript, r)
  <2>1. /\ transcript' \in Seq(Run) /\ Len(transcript') = Len(transcript) + 1
        /\ \A i \in 1..Len(transcript) : transcript'[i] = transcript[i]
        /\ transcript'[Len(transcript) + 1] = r
    BY <1>1, <1>3
  <2>2. Kept' = Kept \cup {r}
    BY <1>1, <2>1 DEF Kept
  <2> QED BY <1>1, <2>1, <2>2
<1> QED BY <1>2, <1>3

------------------------------------------------------------------------------
(* Steps that leave the sessions as they are.                              *)

\* What a request owes to its place when it moves without touching its session.
LEMMA Moves ==
  ASSUME IInv, NEW x \in Request, NEW place \in Place, NEW o \in Outcome \cup {"NONE"},
         pc' = [pc EXCEPT ![x] = place], outcome' = [outcome EXCEPT ![x] = o],
         place \in InSession <=> pc[x] \in InSession,
         place # "restored",
         place \in {"preparing", "starting"} <=> pc[x] \in {"preparing", "starting"},
         x \in Confirm => place \in Confirming,
         x \in Run => place \in {"prompting", "repairing", "crashed"} \/ Idle(x),
         x \in Run /\ place \in Early => ~Committed(x),
         o = outcome[x] \/ outcome[x] = "NONE" \/ pc[x] = "leaving",
         o # "NONE" => place \in Over,
         place = "leaving" => o # "SUCCEEDED",
         o = "SUCCEEDED" /\ o # outcome[x] => x \in Confirm,
         o = "SESSION_BUSY" /\ o # outcome[x] => ~Committed(x),
         confirmed' \in {confirmed, confirmed \cup {x}},
         x \in confirmed' => x \in Confirm /\ place \in {"closing", "ended"},
         o = "SESSION_BUSY" => confirmed' = confirmed,
         UNCHANGED <<tool, active, memory, checkpoint>>,
         transcript' = transcript \/ (x \in Run /\ transcript' = Append(transcript, x)),
         transcript' = transcript \/ o # "SUCCEEDED",
         refused \subseteq refused'
  PROVE  /\ \A y \in Request : RequestOK(y)'
         /\ \A r \in Run : RunOK(r)'
         /\ \A p \in Process : MemoryOK(p)'
<1>1. /\ pc'[x] = place /\ outcome'[x] = o
      /\ \A y \in Request \ {x} : pc'[y] = pc[y] /\ outcome'[y] = outcome[y]
      /\ Confirm \subseteq Request /\ Run \subseteq Request /\ Run \cap Confirm = {}
  BY LeaseAssumption DEF IInv, TypeOK, Request
<1>2. \A y \in Request : Committed(y)' <=> Committed(y) \/ y \in confirmed' \ confirmed
  BY <1>1 DEF Committed, Request
<1>3. \A y \in Request : RequestOK(y)'
  <2> SUFFICES ASSUME NEW y \in Request PROVE RequestOK(y)'
    OBVIOUS
  <2>1. RequestOK(y)
    BY DEF IInv
  <2>2. CASE y # x
    BY <1>1, <1>2, <2>1, <2>2 DEF RequestOK
  <2>3. CASE y = x
    BY <1>1, <1>2, <2>1, <2>3 DEF RequestOK, Over
  <2> QED BY <2>2, <2>3
<1>4. \A r \in Run : RunOK(r)'
  <2> SUFFICES ASSUME NEW r \in Run PROVE RunOK(r)'
    OBVIOUS
  <2>1. RunOK(r)
    BY DEF IInv
  <2>2. Idle(r)' <=> Idle(r)
    BY DEF Idle
  <2>3. Committed(r)' <=> Committed(r)
    BY <1>1, <1>2
  <2>4. CASE r # x
    BY <1>1, <2>1, <2>2, <2>3, <2>4 DEF RunOK, Session
  <2>5. CASE r = x
    BY <1>1, <2>1, <2>2, <2>3, <2>5 DEF RunOK, Session
  <2> QED BY <2>4, <2>5
<1>5. /\ Kept' = Kept \/ (o # "SUCCEEDED" /\ Kept' = Kept \cup {x})
      /\ \A q \in Kept' : q \in Run
  <2>1. \A i \in 1..Len(transcript) : transcript[i] \in Run
    BY ElementOfSeq DEF IInv, TypeOK
  <2>2. CASE transcript' = transcript
    BY <2>1, <2>2 DEF Kept
  <2>3. CASE o # "SUCCEEDED" /\ x \in Run /\ transcript' = Append(transcript, x)
    BY <2>3, Appended
  <2> QED BY <2>2, <2>3
<1>6. \A p \in Process : MemoryOK(p)'
  <2> SUFFICES ASSUME NEW p \in Process PROVE MemoryOK(p)'
    OBVIOUS
  <2>1. MemoryOK(p)
    BY DEF IInv
  <2>2. \A r \in Run : outcome[r] = "SUCCEEDED" => outcome'[r] = "SUCCEEDED"
    BY <1>1 DEF IInv, RequestOK
  <2>3. \A r \in Run : outcome'[r] = "SUCCEEDED" => outcome[r] = "SUCCEEDED"
    BY <1>1
  <2>4. \A r \in Kept' : outcome'[r] = "SUCCEEDED" => r \in Kept
    BY <1>1, <1>5
  <2>5. \A r \in Kept' : r \in Run
    BY <1>5
  <2>6. CASE memory[p] = None
    <3>1. memory'[p] = None /\ active'[p] = None
      BY <2>1, <2>6 DEF MemoryOK
    <3> QED BY <3>1 DEF MemoryOK
  <2>7. CASE memory[p] # None
    <3>1. PICK settled \in Seq(Run) :
            /\ Faithful(p, settled)
            /\ active[p] = None => memory[p] = settled
            /\ active[p] # None =>
                 /\ checkpoint[active[p]] = Len(settled)
                 /\ memory[p] = IF pc[active[p]] \in Unprompted THEN settled
                                ELSE Append(settled, active[p])
      BY <2>1, <2>7 DEF MemoryOK
    <3>2. Faithful(p, settled)'
      BY <1>5, <2>2, <2>3, <2>4, <2>5, <3>1, FaithfulStands
    <3>3. active[p] # None => (pc'[active[p]] \in Unprompted <=> pc[active[p]] \in Unprompted)
      BY <1>1 DEF IInv, TypeOK, Unprompted
    <3> QED BY <2>1, <3>1, <3>2, <3>3 DEF MemoryOK
  <2> QED BY <2>6, <2>7
<1> QED BY <1>3, <1>4, <1>6

\* Steps on the way of a request that execute nothing and keep no turn.
LEMMA GoesOn ==
  ASSUME IInv, NEW x \in Request, NEW place \in Place, NEW o \in Outcome \cup {"NONE"},
         pc' = [pc EXCEPT ![x] = place], outcome' = [outcome EXCEPT ![x] = o],
         place \in InSession <=> pc[x] \in InSession,
         place # "restored",
         place \in {"preparing", "starting"} <=> pc[x] \in {"preparing", "starting"},
         x \in Confirm => place \in Confirming,
         x \in Run => place \in {"prompting", "repairing"} \/ Idle(x),
         place \in Early => pc[x] \in Early,
         o = outcome[x] \/ (o # "SUCCEEDED" /\ (outcome[x] = "NONE" \/ pc[x] = "leaving")),
         o # "NONE" => place \in Over,
         place = "leaving" => o # "SUCCEEDED",
         o = "SESSION_BUSY" /\ o # outcome[x] => ~Committed(x),
         x \in confirmed => place \in {"closing", "ended"},
         lease' \in Lease, holder' \in Request \cup {None},
         lost' \subseteq Request, lapsed' \subseteq Request, base' \in [Run -> Nat],
         UNCHANGED <<toolVars, confirmed, sessionVars, durable>>
  PROVE  IInv'
<1>1. TypeOK'
  BY DEF IInv, TypeOK, Place, toolVars, sessionVars, durable
<1>2. RequestOK(x) /\ (x \in Run => RunOK(x))
  BY DEF IInv
<1>4. x \in Run /\ place \in Early => ~Committed(x)
  BY <1>2 DEF RunOK
<1>5. UNCHANGED <<tool, confirmed, active, memory, checkpoint, transcript, refused>>
  BY DEF toolVars, sessionVars, durable
<1>6. x \in confirmed => x \in Confirm
  BY DEF IInv, TypeOK
<1> QED BY <1>1, <1>4, <1>5, <1>6, Moves DEF IInv

\* Whatever is done to the lease gives a lease.
LEMMA LeaseTypes ==
  ASSUME NEW x \in Request, lease \in Lease
  PROVE  LeaseOf(x) \in Lease /\ NoLease \in Lease /\ Renewed(lease, x) \in Lease
         /\ Released(lease, x) \in Lease /\ Aged(lease) \in Lease
<1>1. Ttl \in Nat \ {0} /\ LeaseOf(x) \in Lease /\ NoLease \in Lease
  BY LeaseAssumption DEF Lease, LeaseOf, NoLease
<1>2. Aged(lease) \in Lease
  BY <1>1 DEF Lease, Aged
<1> QED BY <1>1, <1>2 DEF Renewed, Released

\* A request that starts has been told nothing, or that it failed.
LEMMA SubmitStep ==
  ASSUME IInv, NEW x \in Request, Submit(x) PROVE IInv'
<1>1. PICK place \in {"acquiring", "ended"}, o \in {outcome[x], "FAILED"} :
        /\ pc' = [pc EXCEPT ![x] = place] /\ outcome' = [outcome EXCEPT ![x] = o]
        /\ IF place = "ended" THEN o = "FAILED" ELSE o = outcome[x]
  BY DEF Submit, Goto, End, IInv, TypeOK
<1>2. /\ pc[x] = "idle"
      /\ UNCHANGED <<lease, holder, lapsed, lost, base, toolVars, confirmed, sessionVars, durable>>
  BY DEF Submit, leaseVars
<1>3. TypeOK /\ RequestOK(x) /\ (x \in Run => RunOK(x)) /\ outcome[x] \in Outcome \cup {"NONE"}
  BY DEF IInv, TypeOK
<1>4. outcome[x] = "NONE" /\ x \notin confirmed /\ (x \in Run => Idle(x) /\ ~Committed(x))
  BY <1>2, <1>3 DEF RequestOK, RunOK, Over, Early
<1>5. /\ place \in Place /\ o \in Outcome \cup {"NONE"}
      /\ place \in InSession <=> pc[x] \in InSession
      /\ pc[x] \in Early /\ (place = "ended" => place \in Over)
      /\ x \in Confirm => place \in Confirming
  BY <1>2, <1>3 DEF Place, Outcome, InSession, Early, Over, Confirming
<1> QED BY <1>1, <1>2, <1>3, <1>4, <1>5, GoesOn DEF TypeOK

\* Who finds the lease taken has executed nothing.
LEMMA AcquireStep ==
  ASSUME IInv, NEW x \in Request, Acquire(x) PROVE IInv'
<1>1. PICK place \in {"loading", "confirming", "ended"}, o \in {outcome[x], "SESSION_BUSY"} :
        /\ pc' = [pc EXCEPT ![x] = place] /\ outcome' = [outcome EXCEPT ![x] = o]
        /\ place = "ended" => o = "SESSION_BUSY"
        /\ place # "ended" => o = outcome[x] /\ place = IF x \in Run THEN "loading" ELSE "confirming"
  BY DEF Acquire, Goto, End, IInv, TypeOK
<1>2. /\ pc[x] = "acquiring"
      /\ UNCHANGED <<lapsed, lost, toolVars, confirmed, sessionVars, durable>>
  BY DEF Acquire
<1>3. TypeOK /\ RequestOK(x) /\ (x \in Run => RunOK(x)) /\ outcome[x] \in Outcome \cup {"NONE"}
  BY DEF IInv, TypeOK
<1>4. /\ outcome[x] = "NONE" /\ x \notin confirmed /\ (x \in Run => Idle(x) /\ ~Committed(x))
      /\ x \notin Run => ~Committed(x)
  BY <1>2, <1>3 DEF RequestOK, RunOK, Over, Early, Committed
<1>5. lease' \in Lease /\ holder' \in Request \cup {None} /\ base' \in [Run -> Nat]
  <2>1. Len(transcript) \in Nat
    BY <1>3, LenProperties DEF TypeOK
  <2> QED BY <1>3, <2>1, LeaseTypes DEF Acquire, TypeOK
<1>6. /\ place \in Place /\ o \in Outcome \cup {"NONE"}
      /\ place \in InSession <=> pc[x] \in InSession
      /\ pc[x] \in Early /\ (place = "ended" => place \in Over)
      /\ x \in Confirm => place \in Confirming
  BY <1>1, <1>2, <1>3, LeaseAssumption DEF Place, Outcome, InSession, Early, Over, Confirming
<1> QED BY <1>1, <1>2, <1>3, <1>4, <1>5, <1>6, GoesOn DEF TypeOK

\* Who does not learn whether it has the lease has executed nothing.
LEMMA AcquireThrowsStep ==
  ASSUME IInv, NEW x \in Request, AcquireThrows(x) PROVE IInv'
<1>1. /\ pc[x] = "acquiring"
      /\ pc' = [pc EXCEPT ![x] = "ended"] /\ outcome' = [outcome EXCEPT ![x] = "FAILED"]
      /\ UNCHANGED <<lapsed, lost, toolVars, confirmed, sessionVars, durable, base>>
  BY DEF AcquireThrows, Goto, End
<1>2. TypeOK /\ RequestOK(x) /\ (x \in Run => RunOK(x))
  BY DEF IInv
<1>3. outcome[x] = "NONE" /\ x \notin confirmed /\ (x \in Run => Idle(x))
  BY <1>1, <1>2 DEF RequestOK, RunOK, Over
<1>4. lease' \in Lease /\ holder' \in Request \cup {None}
  BY <1>2, LeaseTypes DEF AcquireThrows, TypeOK
<1>5. "ended" \in Place /\ "FAILED" \in Outcome /\ "ended" \in Over /\ "ended" \in Confirming
      /\ "ended" \notin InSession \cup Early /\ pc[x] \notin InSession
  BY <1>1 DEF Place, Outcome, InSession, Early, Over, Confirming
<1>6. "FAILED" \in Outcome \cup {"NONE"}
  BY <1>5
<1> QED BY <1>1, <1>2, <1>3, <1>4, <1>5, <1>6, GoesOn DEF TypeOK

\* Giving the lease back keeps the types.
LEMMA GivesBack ==
  ASSUME IInv, NEW x \in Request, GiveBack(x), Forget({x})
  PROVE  /\ lease' \in Lease /\ holder' \in Request \cup {None}
         /\ lost' \subseteq Request /\ lapsed' \subseteq Request /\ base' \in [Run -> Nat]
BY LeaseTypes DEF GiveBack, Forget, IInv, TypeOK

\* A run that never had its session gives the lease back.
LEMMA LeaveStep ==
  ASSUME IInv, NEW r \in Run, Leave(r) PROVE IInv'
<1>1. PICK o \in {outcome[r], "FAILED"} :
        pc' = [pc EXCEPT ![r] = "ended"] /\ outcome' = [outcome EXCEPT ![r] = o]
  BY DEF Leave, Goto, End, IInv, TypeOK
<1>2. pc[r] = "leaving" /\ UNCHANGED <<toolVars, confirmed, sessionVars, durable>>
  BY DEF Leave
<1>3. r \in Request /\ TypeOK /\ RequestOK(r) /\ RunOK(r) /\ outcome[r] \in Outcome \cup {"NONE"}
  BY DEF IInv, TypeOK, Request
<1>4. Idle(r) /\ r \notin confirmed
  BY <1>2, <1>3 DEF RequestOK, RunOK
<1>5. /\ "ended" \in Place /\ "ended" \in Over /\ "ended" \in Confirming
      /\ "ended" \notin InSession \cup Early /\ pc[r] \notin InSession
      /\ o \in Outcome \cup {"NONE"}
  BY <1>2, <1>3 DEF Place, Outcome, InSession, Early, Over, Confirming
<1>6. /\ lease' \in Lease /\ holder' \in Request \cup {None}
      /\ lost' \subseteq Request /\ lapsed' \subseteq Request /\ base' \in [Run -> Nat]
  BY <1>3, GivesBack DEF Leave
<1> QED BY <1>1, <1>2, <1>3, <1>4, <1>5, <1>6, GoesOn

\* A request that ends keeps its outcome.
LEMMA CloseStep ==
  ASSUME IInv, NEW x \in Request, Close(x) PROVE IInv'
<1>1. /\ pc[x] = "closing" /\ pc' = [pc EXCEPT ![x] = "ended"]
      /\ UNCHANGED <<outcome, toolVars, confirmed, sessionVars, durable>>
  BY DEF Close, Goto
<1>2. TypeOK /\ RequestOK(x) /\ (x \in Run => RunOK(x)) /\ outcome[x] \in Outcome \cup {"NONE"}
  BY DEF IInv, TypeOK
<1>3. outcome' = [outcome EXCEPT ![x] = outcome[x]] /\ (x \in Run => Idle(x))
  BY <1>1, <1>2 DEF TypeOK, RunOK
<1>4. /\ "ended" \in Place /\ "ended" \in Over /\ "ended" \in Confirming
      /\ "ended" \notin InSession \cup Early /\ pc[x] \notin InSession
  BY <1>1 DEF Place, InSession, Early, Over, Confirming
<1>5. /\ lease' \in Lease /\ holder' \in Request \cup {None}
      /\ lost' \subseteq Request /\ lapsed' \subseteq Request /\ base' \in [Run -> Nat]
  BY GivesBack DEF Close
<1> QED BY <1>1, <1>2, <1>3, <1>4, <1>5, GoesOn

\* A run that cannot load its session has executed nothing.
LEMMA LoadFailsStep ==
  ASSUME IInv, NEW r \in Run, LoadFails(r) PROVE IInv'
<1>1. PICK o \in {"SESSION_BUSY", "FAILED"} :
        pc' = [pc EXCEPT ![r] = "leaving"] /\ outcome' = [outcome EXCEPT ![r] = o]
  BY DEF LoadFails, Goto, End
<1>2. /\ pc[r] = "loading"
      /\ UNCHANGED <<lease, holder, lapsed, lost, base, toolVars, confirmed, sessionVars, durable>>
  BY DEF LoadFails, leaseVars
<1>3. r \in Request /\ r \notin Confirm /\ TypeOK /\ RequestOK(r) /\ RunOK(r)
  BY LeaseAssumption DEF IInv, Request
<1>4. outcome[r] = "NONE" /\ r \notin confirmed /\ Idle(r) /\ ~Committed(r)
  BY <1>2, <1>3 DEF RequestOK, RunOK, Over, Early
<1>5. /\ "leaving" \in Place /\ "leaving" \in Over /\ "leaving" \notin InSession \cup Early
      /\ o \in Outcome \cup {"NONE"} /\ pc[r] \notin InSession
  BY <1>2 DEF Place, Outcome, InSession, Early, Over
<1> QED BY <1>1, <1>2, <1>3, <1>4, <1>5, GoesOn DEF TypeOK

\* After the prompt a run still has its session.
LEMMA PromptEndsStep ==
  ASSUME IInv, NEW r \in Run, PromptEnds(r) PROVE IInv'
<1>1. PICK place \in {"repairing"} : pc' = [pc EXCEPT ![r] = place]
  BY DEF PromptEnds, Goto
<1>2. /\ pc[r] = "prompting"
      /\ UNCHANGED <<lease, holder, lapsed, outcome, lost, base, toolVars, confirmed, sessionVars,
                     durable>>
  BY DEF PromptEnds, leaseVars
<1>3. r \in Request /\ r \notin Confirm /\ TypeOK /\ RequestOK(r) /\ outcome[r] \in Outcome \cup {"NONE"}
  BY LeaseAssumption DEF IInv, Request, TypeOK
<1>4. outcome[r] = "NONE" /\ r \notin confirmed /\ outcome' = [outcome EXCEPT ![r] = outcome[r]]
  BY <1>2, <1>3 DEF RequestOK, Over, TypeOK
<1>5. /\ place \in Place /\ place \in InSession /\ pc[r] \in InSession /\ place \notin Early
  BY <1>1, <1>2 DEF Place, InSession, Early
<1> QED BY <1>1, <1>2, <1>3, <1>4, <1>5, GoesOn DEF TypeOK

\* A run settles when its tool calls have.
LEMMA SettleStep ==
  ASSUME IInv, NEW r \in Run, Settle(r) PROVE IInv'
<1>1. PICK place \in {"appending", "announcing"} : pc' = [pc EXCEPT ![r] = place]
  BY DEF Settle, Goto
<1>2. /\ pc[r] = "repairing" /\ Idle(r)
      /\ UNCHANGED <<lease, holder, lapsed, outcome, lost, base, toolVars, confirmed, sessionVars,
                     durable>>
  BY DEF Settle, leaseVars
<1>3. r \in Request /\ r \notin Confirm /\ TypeOK /\ RequestOK(r) /\ outcome[r] \in Outcome \cup {"NONE"}
  BY LeaseAssumption DEF IInv, Request, TypeOK
<1>4. outcome[r] = "NONE" /\ r \notin confirmed /\ outcome' = [outcome EXCEPT ![r] = outcome[r]]
  BY <1>2, <1>3 DEF RequestOK, Over, TypeOK
<1>5. /\ place \in Place /\ place \in InSession /\ pc[r] \in InSession /\ place \notin Early
  BY <1>1, <1>2 DEF Place, InSession, Early
<1> QED BY <1>1, <1>2, <1>3, <1>4, <1>5, GoesOn DEF TypeOK

\* A confirmation is told of a lost lease only before it executes.
LEMMA ConfirmActionStep ==
  ASSUME IInv, NEW c \in Confirm, ConfirmAction(c) PROVE IInv'
<1>1. PICK place \in {"executing", "closing"}, o \in {outcome[c], "SESSION_BUSY", "FAILED"} :
        /\ pc' = [pc EXCEPT ![c] = place] /\ outcome' = [outcome EXCEPT ![c] = o]
        /\ IF place = "executing" THEN o = outcome[c] ELSE o \in {"SESSION_BUSY", "FAILED"}
  BY DEF ConfirmAction, Goto, End, IInv, TypeOK, Request
<1>2. /\ pc[c] = "confirming"
      /\ UNCHANGED <<lease, holder, lapsed, lost, base, toolVars, confirmed, sessionVars, durable>>
  BY DEF ConfirmAction, leaseVars
<1>3. c \in Request /\ c \notin Run /\ TypeOK /\ RequestOK(c) /\ outcome[c] \in Outcome \cup {"NONE"}
  BY LeaseAssumption DEF IInv, Request, TypeOK
<1>4. outcome[c] = "NONE" /\ c \notin confirmed /\ ~Committed(c)
  BY <1>2, <1>3 DEF RequestOK, Over, Committed
<1>5. /\ place \in Place /\ place \notin InSession \cup Early /\ pc[c] \notin InSession
      /\ place \in Confirming /\ o \in Outcome \cup {"NONE"}
      /\ place = "closing" => place \in Over
  BY <1>1, <1>2, <1>3 DEF Place, Outcome, InSession, Early, Over, Confirming
<1> QED BY <1>1, <1>2, <1>3, <1>4, <1>5, GoesOn DEF TypeOK

\* A confirmation executes at its end.
LEMMA ExecuteActionStep ==
  ASSUME IInv, NEW c \in Confirm, ExecuteAction(c) PROVE IInv'
<1>1. PICK o \in {"SUCCEEDED", "FAILED"} :
        /\ pc' = [pc EXCEPT ![c] = "closing"] /\ outcome' = [outcome EXCEPT ![c] = o]
        /\ confirmed' \in {confirmed, confirmed \cup {c}}
  BY DEF ExecuteAction, Goto, End
<1>2. /\ pc[c] = "executing"
      /\ UNCHANGED <<lease, holder, lapsed, lost, base, tool, inFlight, cancelled, aborted, active,
                     memory, checkpoint, transcript, refused>>
  BY DEF ExecuteAction, leaseVars, toolVars, sessionVars, durable
<1>3. c \in Request /\ c \notin Run /\ TypeOK /\ RequestOK(c)
  BY LeaseAssumption DEF IInv, Request
<1>4. outcome[c] = "NONE"
  BY <1>2, <1>3 DEF RequestOK, Over
<1>5. /\ "closing" \in Place /\ "closing" \notin InSession /\ pc[c] \notin InSession
      /\ "closing" \in Confirming \cap Over /\ o \in Outcome \cup {"NONE"}
  BY <1>2 DEF Place, Outcome, InSession, Over, Confirming
<1>6. TypeOK'
  BY <1>1, <1>2, <1>3, <1>5 DEF TypeOK, Outcome
<1>7. /\ \A y \in Request : RequestOK(y)'
      /\ \A r \in Run : RunOK(r)'
      /\ \A p \in Process : MemoryOK(p)'
  BY <1>1, <1>2, <1>3, <1>4, <1>5, Moves
<1> QED BY <1>6, <1>7 DEF IInv

\* A memory stays faithful if nothing of it, of the outcomes and of the transcript changes.
LEMMA MemoryStands ==
  ASSUME \A p \in Process : MemoryOK(p),
         UNCHANGED <<pc, outcome, active, memory, checkpoint, transcript>>
  PROVE  \A p \in Process : MemoryOK(p)'
BY DEF MemoryOK, Faithful, Kept

\* Steps of the heartbeat, of time and of the client change nothing that the invariant relates.
LEMMA NobodyMoves ==
  ASSUME IInv, TypeOK',
         UNCHANGED <<pc, outcome, tool, confirmed, active, memory, checkpoint, transcript, refused>>
  PROVE  IInv'
<1>1. \A x \in Request : RequestOK(x)'
  BY DEF IInv, RequestOK, Committed
<1>2. \A r \in Run : RunOK(r)'
  BY DEF IInv, RunOK, Idle, Committed, Session
<1>3. \A p \in Process : MemoryOK(p)'
  BY MemoryStands DEF IInv
<1> QED BY <1>1, <1>2, <1>3 DEF IInv

\* A heartbeat aborts the prompt of a run, if any.
LEMMA RenewStep ==
  ASSUME IInv, NEW x \in Request, Renew(x) PROVE IInv'
<1>1. TypeOK /\ RequestOK(x)
  BY DEF IInv
<1>2. lease' \in Lease
  BY <1>1, LeaseTypes DEF Renew, TypeOK
<1>3. aborted' \subseteq Run
  BY <1>1 DEF Renew, Aborted, TypeOK
<1>4. TypeOK'
  BY <1>1, <1>2, <1>3 DEF Renew, TypeOK, toolVars, durable
<1> QED BY <1>4, NobodyMoves DEF Renew, toolVars, durable

\* Time keeps the invariant.
LEMMA TickStep ==
  ASSUME IInv, Tick PROVE IInv'
<1>1. TypeOK
  BY DEF IInv
<1>2. lease' \in Lease
  <2>1. lease \in Lease /\ lease' = Aged(lease) /\ Ttl \in Nat
    BY <1>1, LeaseAssumption DEF Tick, TypeOK
  <2> QED BY <2>1 DEF Lease, Aged
<1>3. TypeOK'
  BY <1>1, <1>2 DEF Tick, TypeOK, toolVars, sessionVars, durable
<1> QED BY <1>3, NobodyMoves DEF Tick, toolVars, sessionVars, durable

\* Only an active run is cancelled.
LEMMA CancelStep ==
  ASSUME IInv, NEW p \in Process, Cancel(p) PROVE IInv'
<1>1. TypeOK
  BY DEF IInv
<1>2. active[p] \in Run
  BY <1>1 DEF Cancel, TypeOK
<1>3. TypeOK'
  BY <1>1, <1>2 DEF Cancel, Aborted, TypeOK, leaseVars, toolVars, durable
<1> QED BY <1>3, NobodyMoves DEF Cancel, toolVars, durable

------------------------------------------------------------------------------
(* Tool calls.                                                             *)

\* A tool call of a run that calls tools is no business of the others.
LEMMA ToolMoves ==
  ASSUME IInv, NEW r \in Run, NEW t \in Tool,
         NEW state \in {"unused", "judged", "executing", "succeeded", "failed"},
         SetTool(r, t, state), pc[r] \in {"prompting", "repairing"}, inFlight' \subseteq Run,
         UNCHANGED <<leaseVars, pc, outcome, lost, confirmed, sessionVars, durable, base>>
  PROVE  IInv'
<1>1. TypeOK'
  BY DEF IInv, TypeOK, SetTool, leaseVars, sessionVars, durable
<1>2. \A q \in Run \ {r} : tool'[q] = tool[q]
  BY DEF IInv, TypeOK, SetTool
<1>3. /\ UNCHANGED <<pc, outcome, confirmed, active, memory, checkpoint, transcript, refused>>
      /\ Run \subseteq Request /\ r \in Request /\ r \notin Confirm
  BY LeaseAssumption DEF sessionVars, durable, Request
<1>4. \A x \in Request : RequestOK(x)'
  <2> SUFFICES ASSUME NEW x \in Request PROVE RequestOK(x)'
    OBVIOUS
  <2>1. RequestOK(x)
    BY DEF IInv
  <2>2. CASE x = r
    BY <1>3, <2>1, <2>2 DEF RequestOK, Over
  <2>3. CASE x # r
    <3>1. Committed(x)' <=> Committed(x)
      BY <1>2, <1>3, <2>3 DEF Committed
    <3> QED BY <1>3, <2>1, <3>1 DEF RequestOK
  <2> QED BY <2>2, <2>3
<1>5. \A q \in Run : RunOK(q)'
  <2> SUFFICES ASSUME NEW q \in Run PROVE RunOK(q)'
    OBVIOUS
  <2>1. RunOK(q)
    BY DEF IInv
  <2>2. CASE q = r
    BY <1>3, <2>1, <2>2 DEF RunOK, Early, Session
  <2>3. CASE q # r
    <3>1. /\ Committed(q)' <=> Committed(q)
          /\ Idle(q)' <=> Idle(q)
      BY <1>2, <1>3, <2>3 DEF Committed, Idle
    <3> QED BY <1>3, <2>1, <3>1 DEF RunOK, Session
  <2> QED BY <2>2, <2>3
<1>6. \A p \in Process : MemoryOK(p)'
  BY <1>3, MemoryStands DEF IInv
<1> QED BY <1>1, <1>4, <1>5, <1>6 DEF IInv

\* A call is made while its run calls tools.
LEMMA CallToolStep ==
  ASSUME IInv, NEW r \in Run, NEW t \in Tool, CallTool(r, t) PROVE IInv'
<1>1. inFlight' \subseteq Run
  BY DEF CallTool, IInv, TypeOK
<1> QED BY <1>1, ToolMoves DEF CallTool

\* A tool call is under way only while its run calls tools.
LEMMA UnderWay ==
  ASSUME IInv, NEW r \in Run, NEW t \in Tool, tool[r][t] \in {"judged", "executing"},
         pc[r] # "crashed"
  PROVE  pc[r] \in {"prompting", "repairing"}
BY DEF IInv, RunOK, Idle

\* A call is judged while its run calls tools.
LEMMA JudgeStep ==
  ASSUME IInv, NEW r \in Run, NEW t \in Tool, Judge(r, t) PROVE IInv'
<1>1. pc[r] \in {"prompting", "repairing"} /\ inFlight' \subseteq Run
  BY UnderWay DEF Judge, IInv, TypeOK
<1>2. PICK state \in {"executing", "failed"} : SetTool(r, t, state)
  BY DEF Judge
<1> QED BY <1>1, <1>2, ToolMoves DEF Judge

\* A call is executed while its run calls tools.
LEMMA ExecuteStep ==
  ASSUME IInv, NEW r \in Run, NEW t \in Tool, Execute(r, t) PROVE IInv'
<1>1. pc[r] \in {"prompting", "repairing"} /\ inFlight' \subseteq Run
  BY UnderWay DEF Execute, IInv, TypeOK
<1>2. PICK state \in {"succeeded", "failed"} : SetTool(r, t, state)
  BY DEF Execute
<1> QED BY <1>1, <1>2, ToolMoves DEF Execute

------------------------------------------------------------------------------
(* Steps that change a session.                                            *)

\* What the other requests owe stands while one run moves.
LEMMA OthersStand ==
  ASSUME IInv, NEW r \in Run, RequestOK(r)', RunOK(r)',
         \A y \in Request \ {r} : pc'[y] = pc[y] /\ outcome'[y] = outcome[y],
         \A q \in Run \ {r} : /\ active'[Session(q)] = q <=> active[Session(q)] = q
                              /\ memory[Session(q)] # None => memory'[Session(q)] # None,
         UNCHANGED <<tool, confirmed>>, refused \subseteq refused'
  PROVE  /\ \A y \in Request : RequestOK(y)'
         /\ \A q \in Run : RunOK(q)'
<1>1. \A y \in Request \ {r} : RequestOK(y)'
  BY DEF IInv, RequestOK, Committed
<1>2. \A q \in Run \ {r} : RunOK(q)'
  BY DEF IInv, RunOK, Idle, Committed, Session, Request
<1> QED BY <1>1, <1>2

\* Another process's memory stands while a run of this one moves.
LEMMA MemoryApart ==
  ASSUME IInv, NEW r \in Run, NEW p \in Process, p # ProcessOf[r],
         \A y \in Run \ {r} : pc'[y] = pc[y] /\ outcome'[y] = outcome[y] /\ checkpoint'[y] = checkpoint[y],
         active'[p] = active[p], memory'[p] = memory[p],
         outcome[r] = "NONE",
         transcript' \in {transcript, Append(transcript, r)}
  PROVE  MemoryOK(p)'
<1>1. MemoryOK(p)
  BY DEF IInv
<1>2. CASE memory[p] = None
  BY <1>1, <1>2 DEF MemoryOK
<1>3. CASE memory[p] # None
  <2>1. PICK settled \in Seq(Run) :
          /\ Faithful(p, settled)
          /\ active[p] = None => memory[p] = settled
          /\ active[p] # None =>
               /\ checkpoint[active[p]] = Len(settled)
               /\ memory[p] = IF pc[active[p]] \in Unprompted THEN settled
                              ELSE Append(settled, active[p])
    BY <1>1, <1>3 DEF MemoryOK
  <2>2. active[p] # None => active[p] \in Run \ {r}
    BY <1>1 DEF MemoryOK, IInv, TypeOK
  <2>3. Kept' \in {Kept, Kept \cup {r}} /\ \A q \in Kept' : q \in Run
    BY Appended
  <2>4. \A q \in Run : outcome[q] = "SUCCEEDED" => outcome'[q] = "SUCCEEDED"
    OBVIOUS
  <2>5. Faithful(p, settled)'
    BY <2>1, <2>3, <2>4, FaithfulStands
  <2> QED BY <1>1, <2>1, <2>2, <2>5 DEF MemoryOK
<1> QED BY <1>2, <1>3

\* A memory made from the transcript is faithful to it.
LEMMA RestoreStep ==
  ASSUME IInv, NEW r \in Run, Restore(r) PROVE IInv'
<1>1. /\ pc[r] = "loading" /\ pc' = [pc EXCEPT ![r] = "restored"]
      /\ UNCHANGED <<lease, holder, lapsed, outcome, lost, base, tool, inFlight, confirmed,
                     cancelled, aborted, active, checkpoint, transcript, refused>>
  BY DEF Restore, Goto, leaseVars, toolVars, durable
<1>2. /\ r \in Request /\ r \notin Confirm /\ Session(r) \in Process /\ TypeOK
      /\ RequestOK(r) /\ RunOK(r) /\ MemoryOK(Session(r))
  BY LeaseAssumption, RuntimeAssumption DEF IInv, Request, Session
<1>3. /\ pc'[r] = "restored" /\ \A y \in Request \ {r} : pc'[y] = pc[y]
      /\ outcome[r] = "NONE" /\ r \notin confirmed
  BY <1>1, <1>2 DEF TypeOK, RequestOK, Over
<1>4. PICK turns \in Seq(Run) :
        turns = IF memory[Session(r)] = None THEN Recent(transcript) ELSE memory[Session(r)]
  BY <1>2, RecentTurns DEF TypeOK
<1>5. memory' = [memory EXCEPT ![Session(r)] = turns]
  BY <1>4 DEF Restore
<1>6. turns # None
  BY RuntimeAssumption
<1>7. TypeOK'
  <2>1. memory' \in [Process -> Seq(Run) \cup {None}]
    BY <1>2, <1>5 DEF TypeOK
  <2>2. \A y \in Request : pc'[y] \in {pc[y], "restored"}
    BY <1>1, <1>2 DEF TypeOK
  <2> QED BY <1>1, <1>2, <2>1, <2>2 DEF TypeOK
<1>8. RequestOK(r)'
  BY <1>1, <1>2, <1>3 DEF RequestOK
<1>9. RunOK(r)'
  <2>1. /\ Committed(r)' <=> Committed(r)
        /\ Idle(r)' <=> Idle(r)
    BY <1>1 DEF Committed, Idle
  <2>2. memory'[Session(r)] # None
    BY <1>2, <1>5, <1>6 DEF TypeOK
  <2> QED BY <1>1, <1>2, <1>3, <2>1, <2>2 DEF RunOK, InSession, Early, Session
<1>10. \A q \in Run : memory[Session(q)] # None => memory'[Session(q)] # None
  BY <1>2, <1>5, <1>6 DEF TypeOK
<1>11. /\ \A y \in Request : RequestOK(y)'
       /\ \A q \in Run : RunOK(q)'
  BY <1>1, <1>3, <1>8, <1>9, <1>10, OthersStand
<1>12. MemoryOK(Session(r))'
  <2>1. CASE memory[Session(r)] # None
    <3>1. memory' = memory
      BY <1>2, <1>4, <1>5, <2>1 DEF TypeOK
    <3>2. active[Session(r)] # r
      BY <1>1, <1>2 DEF RunOK, InSession
    <3>3. active[Session(r)] # None => pc'[active[Session(r)]] = pc[active[Session(r)]]
      BY <1>2, <1>3, <3>2 DEF TypeOK, Request
    <3> QED BY <1>1, <1>2, <3>1, <3>3 DEF MemoryOK, Faithful, Kept
  <2>2. CASE memory[Session(r)] = None
    <3>1. active[Session(r)] = None /\ turns = Recent(transcript)
      BY <1>2, <1>4, <2>2 DEF MemoryOK
    <3>2. memory'[Session(r)] = turns
      BY <1>2, <1>5 DEF TypeOK
    <3>3. /\ Len(turns) <= HistoryLimit
          /\ Len(transcript) > HistoryLimit => Len(turns) = HistoryLimit
          /\ ~(Len(transcript) > HistoryLimit) => turns = transcript
          /\ \A i \in 1..Len(turns) : turns[i] \in Kept
      <4>1. transcript \in Seq(Run) /\ Len(transcript) \in Nat /\ HistoryLimit \in Nat
        BY <1>2, LenProperties, RuntimeAssumption DEF TypeOK
      <4>2. /\ Len(turns) \in Nat /\ Len(turns) <= HistoryLimit
            /\ Len(transcript) <= HistoryLimit => turns = transcript
            /\ Len(transcript) > HistoryLimit => Len(turns) = HistoryLimit
            /\ \A i \in 1..Len(turns) : \E k \in 1..Len(transcript) : turns[i] = transcript[k]
        <5>1. turns \in Seq(Run) /\ Len(turns) \in Nat
          BY LenProperties
        <5>2. /\ Len(Recent(transcript)) <= HistoryLimit
              /\ Len(transcript) <= HistoryLimit => Recent(transcript) = transcript
              /\ Len(transcript) > HistoryLimit => Len(Recent(transcript)) = HistoryLimit
              /\ \A i \in 1..Len(Recent(transcript)) : \E k \in 1..Len(transcript) :
                   Recent(transcript)[i] = transcript[k]
          BY <4>1, RecentTurns
        <5> QED BY <3>1, <5>1, <5>2
      <4> QED BY <4>1, <4>2 DEF Kept
    <3>4. Kept' = Kept
      BY <1>1 DEF Kept
    <3>5. \A q \in Kept : Len(turns) = HistoryLimit \/ \E i \in 1..Len(turns) : turns[i] = q
      BY <3>3 DEF Kept
    <3>6. Faithful(Session(r), turns)'
      BY <3>3, <3>4, <3>5 DEF Faithful
    <3>7. active'[Session(r)] = None
      BY <1>1, <3>1
    <3> QED BY <3>2, <3>6, <3>7 DEF MemoryOK
  <2> QED BY <2>1, <2>2
<1>13. \A p \in Process : MemoryOK(p)'
  <2> SUFFICES ASSUME NEW p \in Process, p # Session(r) PROVE MemoryOK(p)'
    BY <1>12
  <2>1. memory'[p] = memory[p]
    BY <1>2, <1>5 DEF TypeOK
  <2> QED BY <1>1, <1>3, <2>1, MemoryApart DEF Session, Request
<1> QED BY <1>7, <1>11, <1>13 DEF IInv

\* A run that enters its session is alone there, and its checkpoint is the length of a faithful memory.
LEMMA EnterStep ==
  ASSUME IInv, NEW r \in Run, Enter(r) PROVE IInv'
<1>1. /\ pc[r] = "restored"
      /\ UNCHANGED <<lease, holder, lapsed, lost, base, tool, inFlight, confirmed, transcript, refused>>
  BY DEF Enter, leaseVars, toolVars, durable
<1>2. /\ r \in Request /\ r \notin Confirm /\ Session(r) \in Process /\ TypeOK
      /\ RequestOK(r) /\ RunOK(r) /\ MemoryOK(Session(r))
  BY LeaseAssumption, RuntimeAssumption DEF IInv, Request, Session
<1>3. /\ outcome[r] = "NONE" /\ r \notin confirmed /\ Idle(r) /\ ~Committed(r)
      /\ memory[Session(r)] # None
  BY <1>1, <1>2 DEF RequestOK, RunOK, Over, Early
<1>4. CASE r \in lost \/ IsBusy(r)
  <2>1. PICK place \in {"leaving"}, o \in {"SESSION_BUSY"} :
          pc' = [pc EXCEPT ![r] = place] /\ outcome' = [outcome EXCEPT ![r] = o]
    BY <1>4 DEF Enter, End, Goto
  <2>2. UNCHANGED <<toolVars, confirmed, sessionVars, durable>>
    BY <1>1, <1>4 DEF Enter, toolVars, durable
  <2>3. /\ place \in Place /\ place \in Over /\ place \notin InSession \cup Early
        /\ o \in Outcome \cup {"NONE"} /\ pc[r] \notin InSession
    BY <1>1 DEF Place, Outcome, InSession, Early, Over
  <2> QED BY <1>1, <1>2, <1>3, <2>1, <2>2, <2>3, GoesOn DEF TypeOK
<1>5. CASE ~(r \in lost \/ IsBusy(r))
  <2>1. /\ pc' = [pc EXCEPT ![r] = "preparing"]
        /\ active[Session(r)] = None
        /\ active' = [active EXCEPT ![Session(r)] = r]
        /\ checkpoint' = [checkpoint EXCEPT ![r] = Len(memory[Session(r)])]
        /\ UNCHANGED <<outcome, cancelled, aborted, memory>>
    BY <1>5 DEF Enter, Goto, IsBusy
  <2>2. /\ memory[Session(r)] \in Seq(Run)
        /\ Faithful(Session(r), memory[Session(r)])
    BY <1>2, <1>3, <2>1 DEF MemoryOK
  <2>3. PICK n \in 0..HistoryLimit : n = Len(memory[Session(r)])
    BY <2>2, LenProperties, RuntimeAssumption DEF Faithful
  <2>4. \A p \in Process : active[p] # None => active'[p] = active[p]
    BY <1>2, <2>1 DEF TypeOK
  <2>5. TypeOK'
    <3>1. pc' \in [Request -> Place]
      BY <1>2, <2>1 DEF TypeOK, Place
    <3>2. active' \in [Process -> Run \cup {None}] /\ checkpoint' \in [Run -> 0..HistoryLimit]
      BY <1>2, <2>1, <2>3 DEF TypeOK
    <3>3. cancelled' \subseteq {active'[p] : p \in Process} \ {None}
      BY <1>2, <2>1, <2>4 DEF TypeOK
    <3> QED BY <1>1, <1>2, <2>1, <3>1, <3>2, <3>3 DEF TypeOK, Place
  <2>6. /\ pc'[r] = "preparing" /\ \A y \in Request \ {r} : pc'[y] = pc[y]
        /\ active'[Session(r)] = r /\ r # None /\ checkpoint'[r] = Len(memory[Session(r)])
        /\ \A q \in Run \ {r} : checkpoint'[q] = checkpoint[q]
        /\ \A p \in Process \ {Session(r)} : active'[p] = active[p]
    BY <1>2, <2>1, LeaseAssumption DEF TypeOK
  <2>7. RequestOK(r)'
    BY <1>1, <1>2, <1>3, <2>1, <2>6 DEF RequestOK
  <2>8. RunOK(r)'
    <3>1. Idle(r)'
      BY <1>1, <1>3 DEF Idle
    <3> QED BY <1>1, <2>6, <3>1 DEF RunOK, InSession, Early, Session
  <2>9. \A q \in Run \ {r} : active'[Session(q)] = q <=> active[Session(q)] = q
    <3> SUFFICES ASSUME NEW q \in Run \ {r} PROVE active'[Session(q)] = q <=> active[Session(q)] = q
      OBVIOUS
    <3>1. Session(q) \in Process /\ q # None
      BY LeaseAssumption, RuntimeAssumption DEF Session, Request
    <3> QED BY <2>1, <2>6, <3>1
  <2>10. /\ \A y \in Request : RequestOK(y)'
         /\ \A q \in Run : RunOK(q)'
    BY <1>1, <2>1, <2>6, <2>7, <2>8, <2>9, OthersStand
  <2>11. MemoryOK(Session(r))'
    <3>1. Faithful(Session(r), memory[Session(r)])'
      BY <1>1, <2>1, <2>2 DEF Faithful, Kept
    <3>2. memory'[Session(r)] = memory[Session(r)] /\ pc'[active'[Session(r)]] \in Unprompted
      BY <2>1, <2>6 DEF Unprompted
    <3> QED BY <1>3, <2>2, <2>6, <3>1, <3>2 DEF MemoryOK, Session
  <2>12. \A p \in Process : MemoryOK(p)'
    <3> SUFFICES ASSUME NEW p \in Process, p # Session(r) PROVE MemoryOK(p)'
      BY <2>11
    <3> QED BY <1>1, <1>3, <2>1, <2>6, MemoryApart DEF Session, Request
  <2> QED BY <2>5, <2>10, <2>12 DEF IInv
<1> QED BY <1>4, <1>5

\* To announce the start of the model leaves the session as it is.
LEMMA StartModelStep ==
  ASSUME IInv, NEW r \in Run, StartModel(r) PROVE IInv'
<1>1. /\ pc[r] = "preparing" /\ pc' = [pc EXCEPT ![r] = "starting"]
      /\ UNCHANGED <<lease, holder, lapsed, outcome, lost, base, toolVars, confirmed, sessionVars,
                     durable>>
  BY DEF StartModel, Goto, leaseVars
<1>2. /\ r \in Request /\ r \notin Confirm /\ TypeOK /\ RequestOK(r) /\ RunOK(r)
      /\ outcome[r] \in Outcome \cup {"NONE"}
  BY LeaseAssumption DEF IInv, Request, TypeOK
<1>3. PICK o \in Outcome \cup {"NONE"} : o = outcome[r] /\ outcome' = [outcome EXCEPT ![r] = o]
  BY <1>1, <1>2 DEF TypeOK
<1>4. o = "NONE" /\ r \notin confirmed /\ Idle(r)
  BY <1>1, <1>2, <1>3 DEF RequestOK, RunOK, Over
<1>5. PICK place \in Place : place = "starting"
  BY DEF Place
<1>6. place \in InSession /\ pc[r] \in InSession /\ place \notin Early
  BY <1>1, <1>5 DEF InSession, Early
<1> QED BY <1>1, <1>2, <1>3, <1>4, <1>5, <1>6, GoesOn DEF TypeOK

\* The turn of a run begins at its checkpoint.
LEMMA PromptStep ==
  ASSUME IInv, NEW r \in Run, Prompt(r) PROVE IInv'
<1>1. /\ pc[r] = "starting" /\ pc' = [pc EXCEPT ![r] = "prompting"]
      /\ memory' = [memory EXCEPT ![Session(r)] = Append(@, r)]
      /\ UNCHANGED <<lease, holder, lapsed, outcome, lost, base, tool, inFlight, confirmed,
                     cancelled, aborted, active, checkpoint, transcript, refused>>
  BY DEF Prompt, Goto, leaseVars, toolVars, durable
<1>2. /\ r \in Request /\ r \notin Confirm /\ Session(r) \in Process /\ TypeOK
      /\ RequestOK(r) /\ RunOK(r) /\ MemoryOK(Session(r))
  BY LeaseAssumption, RuntimeAssumption DEF IInv, Request, Session
<1>3. /\ outcome[r] = "NONE" /\ r \notin confirmed /\ active[Session(r)] = r /\ r # None
      /\ memory[Session(r)] # None
  BY <1>1, <1>2, LeaseAssumption DEF RequestOK, RunOK, MemoryOK, Over, InSession
<1>4. PICK settled \in Seq(Run) :
        /\ Faithful(Session(r), settled)
        /\ checkpoint[r] = Len(settled)
        /\ memory[Session(r)] = settled
  BY <1>1, <1>3, <1>2 DEF MemoryOK, Unprompted
<1>5. /\ memory'[Session(r)] = Append(settled, r)
      /\ Append(settled, r) \in Seq(Run) /\ Append(settled, r) # None
      /\ \A p \in Process \ {Session(r)} : memory'[p] = memory[p]
      /\ pc'[r] = "prompting" /\ \A y \in Request \ {r} : pc'[y] = pc[y]
  <2>1. Append(settled, r) \in Seq(Run) /\ Append(settled, r) # None
    BY RuntimeAssumption
  <2>2. /\ memory'[Session(r)] = Append(settled, r)
        /\ \A p \in Process \ {Session(r)} : memory'[p] = memory[p]
    BY <1>1, <1>2, <1>4 DEF TypeOK
  <2>3. pc'[r] = "prompting" /\ \A y \in Request \ {r} : pc'[y] = pc[y]
    BY <1>1, <1>2 DEF TypeOK
  <2> QED BY <2>1, <2>2, <2>3
<1>6. TypeOK'
  <2>1. memory' \in [Process -> Seq(Run) \cup {None}]
    BY <1>1, <1>2, <1>4, <1>5 DEF TypeOK
  <2>2. pc' \in [Request -> Place]
    BY <1>1, <1>2 DEF TypeOK, Place
  <2> QED BY <1>1, <1>2, <2>1, <2>2 DEF TypeOK, Place
<1>7. RequestOK(r)'
  BY <1>1, <1>2, <1>3, <1>5 DEF RequestOK
<1>8. RunOK(r)'
  BY <1>1, <1>3, <1>5 DEF RunOK, InSession, Early, Session
<1>9. \A q \in Run : memory[Session(q)] # None => memory'[Session(q)] # None
  <2> SUFFICES ASSUME NEW q \in Run, memory[Session(q)] # None PROVE memory'[Session(q)] # None
    OBVIOUS
  <2>1. Session(q) \in Process
    BY RuntimeAssumption DEF Session, Request
  <2> QED BY <1>5, <2>1
<1>10. /\ \A y \in Request : RequestOK(y)'
       /\ \A q \in Run : RunOK(q)'
  BY <1>1, <1>5, <1>7, <1>8, <1>9, OthersStand
<1>11. MemoryOK(Session(r))'
  <2>1. Faithful(Session(r), settled)'
    BY <1>1, <1>4 DEF Faithful, Kept
  <2>2. active'[Session(r)] = r /\ checkpoint'[r] = Len(settled)
    BY <1>1, <1>3, <1>4
  <2> QED BY <1>3, <1>5, <2>1, <2>2 DEF MemoryOK, Session, Unprompted
<1>12. \A p \in Process : MemoryOK(p)'
  <2> SUFFICES ASSUME NEW p \in Process, p # Session(r) PROVE MemoryOK(p)'
    BY <1>11
  <2> QED BY <1>1, <1>3, <1>5, MemoryApart DEF Session, Request
<1> QED BY <1>6, <1>10, <1>12 DEF IInv

\* A run that leaves its session, with a faithful memory left, leaves it to nobody.
LEMMA Leaves ==
  ASSUME IInv, NEW r \in Run, pc[r] \in InSession, Idle(r),
         NEW o \in Outcome, End(r, "closing", o), LeaveSession(r),
         NEW turns \in Seq(Run), memory' = [memory EXCEPT ![Session(r)] = turns],
         Faithful(Session(r), turns)',
         transcript' \in {transcript, Append(transcript, r)},
         refused' \in {refused, refused \cup {r}},
         o = "SESSION_BUSY" /\ Committed(r) => r \in refused',
         UNCHANGED <<leaseVars, lost, toolVars, confirmed, base>>
  PROVE  IInv'
<1>1. /\ pc' = [pc EXCEPT ![r] = "closing"] /\ outcome' = [outcome EXCEPT ![r] = o]
      /\ active' = [active EXCEPT ![Session(r)] = IF @ = r THEN None ELSE @]
      /\ cancelled' = cancelled \ {r}
      /\ aborted' = aborted \ {r}
      /\ checkpoint' = [checkpoint EXCEPT ![r] = 0]
      /\ UNCHANGED <<lease, holder, lapsed, lost, base, tool, inFlight, confirmed>>
  BY DEF End, Goto, LeaveSession, leaseVars, toolVars
<1>2. /\ r \in Request /\ r \notin Confirm /\ Session(r) \in Process /\ TypeOK
      /\ RequestOK(r) /\ RunOK(r) /\ MemoryOK(Session(r)) /\ None \notin Request
  BY LeaseAssumption, RuntimeAssumption DEF IInv, Request, Session
<1>3. outcome[r] = "NONE" /\ r \notin confirmed /\ active[Session(r)] = r
  BY <1>2 DEF RequestOK, RunOK, Over, InSession
<1>4. /\ pc'[r] = "closing" /\ outcome'[r] = o
      /\ \A y \in Request \ {r} : pc'[y] = pc[y] /\ outcome'[y] = outcome[y]
      /\ \A q \in Run \ {r} : checkpoint'[q] = checkpoint[q]
      /\ active'[Session(r)] = None /\ memory'[Session(r)] = turns
      /\ \A p \in Process \ {Session(r)} : active'[p] = active[p] /\ memory'[p] = memory[p]
  <2>1. /\ pc'[r] = "closing" /\ outcome'[r] = o
        /\ \A y \in Request \ {r} : pc'[y] = pc[y] /\ outcome'[y] = outcome[y]
    BY <1>1, <1>2 DEF TypeOK
  <2>2. \A q \in Run \ {r} : checkpoint'[q] = checkpoint[q]
    BY <1>1, <1>2 DEF TypeOK
  <2>3. /\ active'[Session(r)] = None /\ memory'[Session(r)] = turns
        /\ \A p \in Process \ {Session(r)} : active'[p] = active[p] /\ memory'[p] = memory[p]
    BY <1>1, <1>2, <1>3 DEF TypeOK
  <2> QED BY <2>1, <2>2, <2>3
<1>5. TypeOK'
  <2>1. pc' \in [Request -> Place] /\ outcome' \in [Request -> Outcome \cup {"NONE"}]
    BY <1>1, <1>2 DEF TypeOK, Place
  <2>2. active' \in [Process -> Run \cup {None}] /\ memory' \in [Process -> Seq(Run) \cup {None}]
    BY <1>1, <1>2 DEF TypeOK
  <2>3. cancelled' \subseteq {active'[p] : p \in Process} \ {None}
    BY <1>1, <1>2, <1>3, <1>4 DEF TypeOK
  <2>4. checkpoint' \in [Run -> 0..HistoryLimit]
    BY <1>1, <1>2, RuntimeAssumption DEF TypeOK
  <2>5. transcript' \in Seq(Run) /\ refused' \subseteq Run /\ aborted' \subseteq Run
    BY <1>1, <1>2, Appended DEF TypeOK
  <2> QED BY <1>1, <1>2, <2>1, <2>2, <2>3, <2>4, <2>5 DEF TypeOK, Place
<1>6. RequestOK(r)'
  <2>1. Committed(r)' <=> Committed(r)
    BY <1>1 DEF Committed
  <2> QED BY <1>1, <1>2, <1>3, <1>4, <2>1 DEF RequestOK, Over
<1>7. RunOK(r)'
  <2>1. Idle(r)'
    BY <1>1 DEF Idle
  <2> QED BY <1>2, <1>4, <2>1 DEF RunOK, InSession, Early, Session, Request
<1>8. \A q \in Run \ {r} : /\ active'[Session(q)] = q <=> active[Session(q)] = q
                           /\ memory[Session(q)] # None => memory'[Session(q)] # None
  <2> SUFFICES ASSUME NEW q \in Run \ {r}
               PROVE  /\ active'[Session(q)] = q <=> active[Session(q)] = q
                      /\ memory[Session(q)] # None => memory'[Session(q)] # None
    OBVIOUS
  <2>1. Session(q) \in Process /\ q # None /\ turns # None
    BY LeaseAssumption, RuntimeAssumption DEF Session, Request
  <2> QED BY <1>3, <1>4, <2>1
<1>9. /\ \A y \in Request : RequestOK(y)'
      /\ \A q \in Run : RunOK(q)'
  BY <1>1, <1>4, <1>6, <1>7, <1>8, OthersStand
<1>10. MemoryOK(Session(r))'
  BY <1>4 DEF MemoryOK
<1>11. \A p \in Process : MemoryOK(p)'
  <2> SUFFICES ASSUME NEW p \in Process, p # Session(r) PROVE MemoryOK(p)'
    BY <1>10
  <2> QED BY <1>3, <1>4, MemoryApart DEF Session, Request
<1> QED BY <1>5, <1>9, <1>11 DEF IInv

\* What a rollback leaves is the faithful memory that the run found.
LEMMA RollsBack ==
  ASSUME IInv, NEW r \in Run, pc[r] \in InSession
  PROVE  \E turns \in Seq(Run) : Faithful(Session(r), turns) /\ Recent(RolledBack(r)) = turns
<1>1. /\ Session(r) \in Process /\ RunOK(r) /\ MemoryOK(Session(r)) /\ r # None
  BY LeaseAssumption, RuntimeAssumption DEF IInv, Request, Session
<1>2. active[Session(r)] = r
  BY <1>1 DEF RunOK
<1>3. PICK turns \in Seq(Run) :
        /\ Faithful(Session(r), turns)
        /\ checkpoint[r] = Len(turns)
        /\ memory[Session(r)] = IF pc[r] \in Unprompted THEN turns ELSE Append(turns, r)
  BY <1>1, <1>2 DEF MemoryOK
<1>4. RolledBack(r) = turns
  BY <1>3, TakenBack DEF RolledBack
<1>5. Recent(turns) = turns
  BY <1>3, RecentTurns DEF Faithful
<1> QED BY <1>3, <1>4, <1>5

\* A failing run leaves the memory it found, kept its turn or not, and denies nothing it executed.
LEMMA FailStep ==
  ASSUME IInv, NEW r \in Run, pc[r] \in InSession,
         NEW code \in {"FAILED", "SESSION_BUSY"}, Fail(r, code),
         transcript' \in {transcript, Append(transcript, r)},
         refused' \in {refused, refused \cup {r}},
         code = "SESSION_BUSY" => r \in refused' \/ LossCounts(r),
         UNCHANGED <<leaseVars, lost, toolVars, confirmed, base>>
  PROVE  IInv'
<1>1. PICK o \in Outcome :
        /\ End(r, "closing", o) /\ o # "SUCCEEDED"
        /\ o = "SESSION_BUSY" /\ Committed(r) => r \in refused'
  BY DEF Fail, LossCounts, Outcome
<1>2. PICK turns \in Seq(Run) : Faithful(Session(r), turns) /\ Recent(RolledBack(r)) = turns
  BY RollsBack
<1>3. memory' = [memory EXCEPT ![Session(r)] = turns] /\ Idle(r) /\ LeaveSession(r)
  BY <1>2 DEF Fail
<1>4. Faithful(Session(r), turns)'
  <2>1. RequestOK(r) /\ TypeOK /\ r \in Request /\ Run \subseteq Request
    BY DEF IInv, Request
  <2>2. outcome[r] = "NONE"
    BY <2>1 DEF RequestOK, Over, InSession
  <2>3. outcome'[r] = o /\ \A q \in Run \ {r} : outcome'[q] = outcome[q]
    BY <1>1, <2>1 DEF End, TypeOK
  <2>4. Kept' \in {Kept, Kept \cup {r}} /\ \A q \in Kept' : q \in Run
    BY Appended
  <2> QED BY <1>1, <1>2, <2>2, <2>3, <2>4, FaithfulStands
<1> QED BY <1>1, <1>3, <1>4, Leaves

\* A check that fails ends the run as a failure does.
LEMMA BreakStep ==
  ASSUME IInv, NEW r \in Run, Break(r) PROVE IInv'
<1>1. pc[r] \in InSession
  BY DEF Break, InSession
<1> QED BY <1>1, FailStep DEF Break, durable

\* An append that fails, before or after it has kept the turn, ends the run as a failure does.
LEMMA AppendFailsStep ==
  ASSUME IInv, NEW r \in Run, AppendFails(r) PROVE IInv'
<1>1. pc[r] \in InSession
  BY DEF AppendFails, InSession
<1>2. transcript' \in {transcript, Append(transcript, r)}
  BY DEF AppendFails
<1> QED BY <1>1, <1>2, FailStep DEF AppendFails

\* A turn is kept while its run has no outcome; a refused one ends it.
LEMMA AppendTurnStep ==
  ASSUME IInv, NEW r \in Run, AppendTurn(r) PROVE IInv'
<1>1. /\ pc[r] = "appending" /\ pc[r] \in InSession
      /\ transcript' \in {transcript, Append(transcript, r)}
      /\ refused' \in {refused, refused \cup {r}}
      /\ UNCHANGED <<leaseVars, lost, toolVars, confirmed, base>>
  BY DEF AppendTurn, InSession
<1>2. CASE r \in refused' \/ LossCounts(r)
  BY <1>1, <1>2, FailStep DEF AppendTurn
<1>3. CASE ~(r \in refused' \/ LossCounts(r))
  <2>1. PICK place \in {"announcing"} : pc' = [pc EXCEPT ![r] = place]
    BY <1>3 DEF AppendTurn, Goto
  <2>2. /\ UNCHANGED <<lease, holder, lapsed, outcome, lost, base, tool, inFlight, confirmed,
                       cancelled, aborted, active, memory, checkpoint>>
    BY <1>1, <1>3 DEF AppendTurn, leaseVars, toolVars, sessionVars
  <2>3. r \in Request /\ r \notin Confirm /\ TypeOK /\ RequestOK(r) /\ RunOK(r)
    BY LeaseAssumption DEF IInv, Request
  <2>4. /\ outcome[r] = "NONE" /\ r \notin confirmed /\ Idle(r)
        /\ outcome' = [outcome EXCEPT ![r] = outcome[r]] /\ outcome[r] \in Outcome \cup {"NONE"}
    BY <1>1, <2>2, <2>3 DEF RequestOK, RunOK, Over, TypeOK
  <2>5. place \in Place /\ place \in InSession /\ place \notin Early
    BY <2>1 DEF Place, InSession, Early
  <2>6. TypeOK'
    <3>1. transcript' \in Seq(Run) /\ refused' \subseteq Run
      BY <1>1, <2>3, Appended DEF TypeOK
    <3> QED BY <2>1, <2>2, <2>3, <3>1 DEF TypeOK
  <2>7. /\ \A y \in Request : RequestOK(y)'
        /\ \A q \in Run : RunOK(q)'
        /\ \A p \in Process : MemoryOK(p)'
    BY <1>1, <2>1, <2>2, <2>3, <2>4, <2>5, Moves
  <2> QED BY <2>6, <2>7 DEF IInv
<1> QED BY <1>2, <1>3

\* A run that succeeds leaves its turn in the memory, and forgets others only to make room.
LEMMA AnnounceStep ==
  ASSUME IInv, NEW r \in Run, Announce(r) PROVE IInv'
<1>1. /\ pc[r] = "announcing" /\ pc[r] \in InSession
      /\ End(r, "closing", "SUCCEEDED") /\ LeaveSession(r)
      /\ memory' = [memory EXCEPT ![Session(r)] = Recent(@)]
      /\ UNCHANGED <<leaseVars, lost, toolVars, confirmed, base, transcript, refused>>
  BY DEF Announce, InSession, durable
<1>2. /\ Session(r) \in Process /\ TypeOK /\ RequestOK(r) /\ RunOK(r) /\ MemoryOK(Session(r))
      /\ r # None /\ r \in Request
  BY LeaseAssumption, RuntimeAssumption DEF IInv, Request, Session
<1>3. active[Session(r)] = r /\ Idle(r)
  BY <1>1, <1>2 DEF RunOK
<1>4. PICK settled \in Seq(Run) :
        Faithful(Session(r), settled) /\ memory[Session(r)] = Append(settled, r)
  BY <1>1, <1>2, <1>3 DEF MemoryOK, Unprompted
<1>5. Append(settled, r) \in Seq(Run)
  OBVIOUS
<1>6. PICK turns \in Seq(Run) : turns = Recent(Append(settled, r))
  BY <1>5, RecentTurns
<1>7. memory' = [memory EXCEPT ![Session(r)] = turns]
  BY <1>1, <1>4, <1>6
<1>8. Faithful(Session(r), turns)'
  <2>1. /\ Len(settled) \in Nat /\ Len(Append(settled, r)) = Len(settled) + 1
        /\ Append(settled, r)[Len(settled) + 1] = r
        /\ \A i \in 1..Len(settled) : Append(settled, r)[i] = settled[i] /\ settled[i] \in Run
        /\ Len(turns) \in Nat /\ HistoryLimit \in Nat
    BY LenProperties, ElementOfSeq, RuntimeAssumption
  <2>2. /\ Len(turns) <= HistoryLimit
        /\ Len(settled) + 1 <= HistoryLimit => turns = Append(settled, r)
        /\ Len(settled) + 1 > HistoryLimit => Len(turns) = HistoryLimit
        /\ \A i \in 1..Len(turns) : \E k \in 1..(Len(settled) + 1) : turns[i] = Append(settled, r)[k]
    <3>1. /\ Len(Recent(Append(settled, r))) <= HistoryLimit
          /\ Len(Append(settled, r)) <= HistoryLimit => Recent(Append(settled, r)) = Append(settled, r)
          /\ Len(Append(settled, r)) > HistoryLimit => Len(Recent(Append(settled, r))) = HistoryLimit
          /\ \A i \in 1..Len(Recent(Append(settled, r))) : \E k \in 1..Len(Append(settled, r)) :
               Recent(Append(settled, r))[i] = Append(settled, r)[k]
      BY <1>5, RecentTurns
    <3> QED BY <1>6, <2>1, <3>1
  <2>3. outcome'[r] = "SUCCEEDED" /\ \A q \in Run \ {r} : outcome'[q] = outcome[q]
    BY <1>1, <1>2 DEF End, TypeOK, Request
  <2>4. Kept' = Kept /\ \A q \in Kept : q \in Run
    <3>1. \A q \in Kept' : q \in Run
      BY <1>1, Appended
    <3>2. Kept' = Kept
      BY <1>1 DEF Kept
    <3> QED BY <3>1, <3>2
  <2>5. \A i \in 1..Len(turns) : outcome'[turns[i]] = "SUCCEEDED" \/ turns[i] \in Kept
    <3> SUFFICES ASSUME NEW i \in 1..Len(turns)
                 PROVE  outcome'[turns[i]] = "SUCCEEDED" \/ turns[i] \in Kept
      OBVIOUS
    <3>1. PICK k \in 1..(Len(settled) + 1) : turns[i] = Append(settled, r)[k]
      BY <2>2
    <3>2. CASE k = Len(settled) + 1
      BY <2>1, <2>3, <3>1, <3>2
    <3>3. CASE k \in 1..Len(settled)
      <4>1. turns[i] = settled[k] /\ settled[k] \in Run
        BY <2>1, <3>1, <3>3
      <4>2. outcome[settled[k]] = "SUCCEEDED" \/ settled[k] \in Kept
        BY <1>4, <3>3 DEF Faithful
      <4> QED BY <2>3, <4>1, <4>2
    <3> QED BY <2>1, <3>2, <3>3
  <2>6. \A q \in Kept : ProcessOf[q] = Session(r) /\ outcome'[q] = "SUCCEEDED" =>
          Len(turns) = HistoryLimit \/ \E i \in 1..Len(turns) : turns[i] = q
    <3> SUFFICES ASSUME NEW q \in Kept, ProcessOf[q] = Session(r), outcome'[q] = "SUCCEEDED",
                        Len(turns) # HistoryLimit
                 PROVE  \E i \in 1..Len(turns) : turns[i] = q
      OBVIOUS
    <3>1. turns = Append(settled, r) /\ Len(turns) = Len(settled) + 1
      BY <2>1, <2>2
    <3>2. Len(settled) # HistoryLimit
      BY <2>1, <2>2, <3>1
    <3>3. CASE q = r
      BY <2>1, <3>1, <3>3
    <3>4. CASE q # r
      <4>1. PICK i \in 1..Len(settled) : settled[i] = q
        BY <1>4, <2>3, <2>4, <3>2, <3>4 DEF Faithful
      <4> QED BY <2>1, <3>1, <4>1
    <3> QED BY <3>3, <3>4
  <2> QED BY <2>2, <2>4, <2>5, <2>6 DEF Faithful
<1>9. PICK o \in Outcome : o = "SUCCEEDED"
  BY DEF Outcome
<1> QED BY <1>1, <1>3, <1>7, <1>8, <1>9, Leaves

------------------------------------------------------------------------------
(* A crash.                                                                *)

\* With a process go its memory, its requests and what they knew.
LEMMA CrashStep ==
  ASSUME IInv, NEW p \in Process, Crash(p) PROVE IInv'
<1>1. PICK Gone \in SUBSET Request :
        /\ Gone = {x \in Request : ProcessOf[x] = p /\ pc[x] \in UnderLease \cup {"acquiring"}}
        /\ pc' = [x \in Request |-> IF x \in Gone THEN "crashed" ELSE pc[x]]
        /\ active' = [active EXCEPT ![p] = None]
        /\ memory' = [memory EXCEPT ![p] = None]
        /\ cancelled' = cancelled \ Gone
        /\ aborted' = aborted \ Gone
        /\ checkpoint' = [r \in Run |-> IF r \in Gone THEN 0 ELSE checkpoint[r]]
        /\ inFlight' = inFlight \ Gone
        /\ lost' = lost \ Gone
        /\ lapsed' = lapsed \ Gone
        /\ base' = [r \in Run |-> IF r \in Gone THEN 0 ELSE base[r]]
  BY DEF Crash, Forget
<1>2. UNCHANGED <<lease, holder, outcome, tool, confirmed, transcript, refused>>
  BY DEF Crash, durable
<1>3. TypeOK /\ Run \subseteq Request /\ \A r \in Run : Session(r) = ProcessOf[r] /\ r # None
  BY LeaseAssumption DEF IInv, Request, Session
<1>4. /\ \A x \in Gone : pc'[x] = "crashed"
      /\ \A x \in Request \ Gone : pc'[x] = pc[x]
      /\ active'[p] = None /\ memory'[p] = None
      /\ \A q \in Process \ {p} : active'[q] = active[q] /\ memory'[q] = memory[q]
      /\ \A r \in Run \ Gone : checkpoint'[r] = checkpoint[r]
  BY <1>1, <1>3 DEF TypeOK
<1>5. \A r \in Run : ProcessOf[r] = p /\ pc[r] \in InSession \cup {"restored"} => r \in Gone
  BY <1>1, <1>3 DEF InSession, UnderLease
<1>6. active[p] # None => active[p] \in Gone
  <2>1. MemoryOK(p) /\ active[p] \in Run \cup {None}
    BY <1>3 DEF IInv, TypeOK
  <2>2. active[p] # None => active[p] \in Run /\ ProcessOf[active[p]] = p
    BY <2>1 DEF MemoryOK
  <2>3. active[p] # None => RunOK(active[p])
    BY <2>2 DEF IInv
  <2>4. active[p] # None => pc[active[p]] \in InSession
    BY <1>3, <2>2, <2>3 DEF RunOK
  <2> QED BY <1>5, <2>2, <2>4
<1>7. TypeOK'
  <2>1. cancelled' \subseteq {active'[q] : q \in Process} \ {None}
    <3> SUFFICES ASSUME NEW r \in cancelled, r \notin Gone
                 PROVE  r \in {active'[q] : q \in Process} \ {None}
      BY <1>1
    <3>1. PICK q \in Process : active[q] = r /\ r # None
      BY <1>3 DEF TypeOK
    <3> QED BY <1>4, <1>6, <3>1
  <2>2. pc' \in [Request -> Place]
    BY <1>1, <1>3 DEF TypeOK, Place
  <2>3. checkpoint' \in [Run -> 0..HistoryLimit] /\ base' \in [Run -> Nat]
    BY <1>1, <1>3, RuntimeAssumption DEF TypeOK
  <2>4. active' \in [Process -> Run \cup {None}] /\ memory' \in [Process -> Seq(Run) \cup {None}]
    BY <1>1, <1>3 DEF TypeOK
  <2> QED BY <1>1, <1>2, <1>3, <2>1, <2>2, <2>3, <2>4 DEF TypeOK, Place
<1>8. \A x \in Request : RequestOK(x)'
  <2> SUFFICES ASSUME NEW x \in Request PROVE RequestOK(x)'
    OBVIOUS
  <2>1. RequestOK(x) /\ (Committed(x)' <=> Committed(x))
    BY <1>2 DEF IInv, Committed
  <2>2. CASE x \in Gone
    BY <1>2, <1>4, <2>1, <2>2 DEF RequestOK, Over, Confirming
  <2>3. CASE x \notin Gone
    BY <1>2, <1>4, <2>1, <2>3 DEF RequestOK
  <2> QED BY <2>2, <2>3
<1>9. \A r \in Run : RunOK(r)'
  <2> SUFFICES ASSUME NEW r \in Run PROVE RunOK(r)'
    OBVIOUS
  <2>1. /\ RunOK(r) /\ (Committed(r)' <=> Committed(r)) /\ (Idle(r)' <=> Idle(r))
        /\ ProcessOf[r] \in Process
    BY <1>2, <1>3, RuntimeAssumption DEF IInv, Committed, Idle
  <2>2. CASE r \in Gone
    <3>1. ProcessOf[r] = p
      BY <1>1, <2>2
    <3> QED BY <1>3, <1>4, <2>1, <2>2, <3>1 DEF RunOK, InSession, Early
  <2>3. CASE r \notin Gone /\ ProcessOf[r] = p
    BY <1>3, <1>4, <1>5, <2>1, <2>3 DEF RunOK
  <2>4. CASE r \notin Gone /\ ProcessOf[r] # p
    BY <1>3, <1>4, <2>1, <2>4 DEF RunOK
  <2> QED BY <2>2, <2>3, <2>4
<1>10. \A q \in Process : MemoryOK(q)'
  <2>1. MemoryOK(p)'
    BY <1>4 DEF MemoryOK
  <2> SUFFICES ASSUME NEW q \in Process \ {p} PROVE MemoryOK(q)'
    BY <2>1
  <2>2. MemoryOK(q) /\ active'[q] = active[q] /\ memory'[q] = memory[q]
    BY <1>4 DEF IInv
  <2>3. active[q] # None => active[q] \in Run \ Gone
    BY <1>1, <1>3, <2>2 DEF MemoryOK, TypeOK
  <2>4. active[q] # None =>
          pc'[active[q]] = pc[active[q]] /\ checkpoint'[active[q]] = checkpoint[active[q]]
    BY <1>3, <1>4, <2>3
  <2>5. \A turns \in Seq(Run) : Faithful(q, turns) => Faithful(q, turns)'
    BY <1>2 DEF Faithful, Kept
  <2> QED BY <2>2, <2>4, <2>5 DEF MemoryOK
<1> QED BY <1>7, <1>8, <1>9, <1>10 DEF IInv

------------------------------------------------------------------------------
(* The inductive invariant and what follows from it.                       *)

\* The initial states satisfy the invariant.
LEMMA InitIInv == Init => IInv
<1> SUFFICES ASSUME Init PROVE IInv
  OBVIOUS
<1>1. Request = Run \cup Confirm /\ None \notin Request /\ HistoryLimit \in Nat \ {0}
  BY LeaseAssumption, RuntimeAssumption DEF Request
<1>2. TypeOK
  <2>1. lease \in Lease
    BY LeaseAssumption DEF Init, NoLease, Lease
  <2> QED BY <1>1, <2>1 DEF Init, TypeOK
<1>3. \A x \in Request : RequestOK(x)
  BY <1>1 DEF Init, RequestOK, Over, Confirming
<1>4. \A r \in Run : RunOK(r)
  <2> SUFFICES ASSUME NEW r \in Run PROVE RunOK(r)
    OBVIOUS
  <2>1. pc[r] = "idle" /\ active[Session(r)] = None /\ r # None
    BY <1>1, RuntimeAssumption DEF Init, Session
  <2>2. Idle(r) /\ ~Committed(r)
    BY <1>1, LeaseAssumption DEF Init, Idle, Committed
  <2> QED BY <2>1, <2>2 DEF RunOK, InSession
<1>5. \A p \in Process : MemoryOK(p)
  BY DEF Init, MemoryOK
<1> QED BY <1>2, <1>3, <1>4, <1>5 DEF IInv

\* Every step keeps the invariant.
LEMMA NextIInv == IInv /\ [Next]_vars => IInv'
<1> SUFFICES ASSUME IInv, [Next]_vars PROVE IInv'
  OBVIOUS
<1>1. CASE UNCHANGED vars
  <2>1. TypeOK'
    BY <1>1 DEF vars, leaseVars, toolVars, sessionVars, durable, IInv, TypeOK
  <2> QED BY <1>1, <2>1, NobodyMoves DEF vars, leaseVars, toolVars, sessionVars, durable
<1>2. ASSUME NEW x \in Request, Submit(x) \/ LeaseStep(x) \/ Renew(x) PROVE IInv'
  BY <1>2, SubmitStep, AcquireStep, AcquireThrowsStep, CloseStep, RenewStep DEF LeaseStep
<1>3. ASSUME NEW r \in Run, RunStep(r) PROVE IInv'
  <2>1. CASE LoadFails(r) \/ Restore(r) \/ Enter(r) \/ Leave(r) \/ StartModel(r)
                \/ Prompt(r)
    BY <2>1, LoadFailsStep, RestoreStep, EnterStep, LeaveStep, StartModelStep, PromptStep
  <2>2. CASE PromptEnds(r) \/ Settle(r) \/ Break(r)
    BY <2>2, PromptEndsStep, SettleStep, BreakStep
  <2>3. CASE AppendTurn(r) \/ AppendFails(r) \/ Announce(r)
    BY <2>3, AppendTurnStep, AppendFailsStep, AnnounceStep
  <2> QED BY <1>3, <2>1, <2>2, <2>3 DEF RunStep
<1>4. ASSUME NEW r \in Run, NEW t \in Tool, CallTool(r, t) \/ ToolStep(r, t) PROVE IInv'
  BY <1>4, CallToolStep, JudgeStep, ExecuteStep DEF ToolStep
<1>5. ASSUME NEW c \in Confirm, ConfirmStep(c) PROVE IInv'
  BY <1>5, ConfirmActionStep, ExecuteActionStep DEF ConfirmStep
<1>6. ASSUME NEW p \in Process, Cancel(p) \/ Crash(p) PROVE IInv'
  BY <1>6, CancelStep, CrashStep
<1>7. CASE Tick
  BY <1>7, TickStep
<1> QED BY <1>1, <1>2, <1>3, <1>4, <1>5, <1>6, <1>7 DEF Next

\* The inductive invariant holds in every reachable state, whatever the owners.
THEOREM Invariance == Spec => []IInv
BY InitIInv, NextIInv, PTL DEF Spec

\* Every variable keeps its type; only the active run of a process can be cancelled.
THEOREM TypeCorrect == Spec => []TypeOK
<1>1. IInv => TypeOK
  BY DEF IInv
<1> QED BY <1>1, Invariance, PTL

\* A process's memory follows the outcomes of its runs (rollback, trimHistory, restoreRecent):
\* through failures after the commit, cancellations, crashes and runs of other processes.
THEOREM MemoriesFollowOutcomes == Spec => []MemoryFollowsOutcomes
<1>1. IInv => MemoryFollowsOutcomes
  <2> SUFFICES ASSUME IInv, NEW p \in Process, active[p] = None, memory[p] # None
               PROVE  LET remembered == {memory[p][i] : i \in DOMAIN memory[p]}
                          kept == {transcript[i] : i \in DOMAIN transcript}
                      IN /\ \A r \in remembered : outcome[r] = "SUCCEEDED" \/ r \in kept
                         /\ \A r \in kept : ProcessOf[r] = p /\ outcome[r] = "SUCCEEDED" =>
                              r \in remembered \/ Len(memory[p]) = HistoryLimit
    BY DEF MemoryFollowsOutcomes
  <2>1. MemoryOK(p) /\ transcript \in Seq(Run)
    BY DEF IInv, TypeOK
  <2>2. memory[p] \in Seq(Run) /\ Faithful(p, memory[p])
    BY <2>1 DEF MemoryOK
  <2>3. DOMAIN memory[p] = 1..Len(memory[p]) /\ DOMAIN transcript = 1..Len(transcript)
    BY <2>1, <2>2, LenProperties
  <2> QED BY <2>2, <2>3 DEF Faithful, Kept
<1> QED BY <1>1, Invariance, PTL

\* Nothing of a request happens after its outcome, and a success is not denied because the
\* lease was lost (waitForIdle, effectiveSessionLeaseLost).
THEOREM RequestsEndHonestly == Spec => []EndsHonestly
<1>1. IInv => NothingAfterTheEnd
  BY DEF IInv, RunOK, Idle, NothingAfterTheEnd
<1>2. IInv => SuccessSurvivesLoss
  BY DEF IInv, RequestOK, SuccessSurvivesLoss
<1>3. IInv => EndsHonestly
  BY <1>1, <1>2 DEF EndsHonestly
<1> QED BY <1>3, Invariance, PTL

------------------------------------------------------------------------------
(* The lease.                                                              *)

\* No two requests take the lease under one run identifier.
DistinctOwners == \A x, y \in Request : OwnerOf[x] = OwnerOf[y] => x = y

\* No other request takes the lease under the identifier of a run.
RunsOwnTheirLease == \A r \in Run, x \in Request : OwnerOf[x] = OwnerOf[r] => x = r

\* The lease is its holder's, and whoever else goes on has seen it run out.
LeaseInv ==
  /\ holder = None => lease = NoLease
  /\ holder # None => lease.owner = OwnerOf[holder]
  /\ holder # None /\ lease.left = 0 /\ pc[holder] \in UnderLease => holder \in lapsed
  /\ \A x \in Request : pc[x] \in UnderLease => x = holder \/ x \in lapsed

\* Places of a run that has the lease and has not appended its turn.
BeforeTurn == {"loading", "restored", "preparing", "starting", "prompting", "repairing",
               "appending"}

\* As long as a run holds the lease it took, the transcript is the one it found.
IsolatedInv ==
  \A r \in Run : pc[r] \in BeforeTurn /\ Holds(lease, r) => base[r] = Len(transcript)

\* What a step other than of the lease leaves: nobody comes under the lease by it.
Bystands ==
  /\ UNCHANGED <<leaseVars, base>>
  /\ \A x \in Request : /\ pc'[x] \in UnderLease => pc[x] \in UnderLease
                        /\ pc'[x] \in BeforeTurn => pc[x] \in BeforeTurn

\* The lease stays its holder's in a step that does not touch it.
LEMMA Bystanding ==
  ASSUME IInv, LeaseInv, Bystands PROVE LeaseInv'
BY LeaseAssumption DEF LeaseInv, Bystands, leaseVars, IInv, TypeOK

\* The steps of a run touch no lease, and append a turn only under its own.
LEMMA RunBystands ==
  ASSUME IInv, NEW r \in Run, RunStep(r), ~Leave(r)
  PROVE  /\ Bystands
         /\ transcript' # transcript => transcript' = Append(transcript, r) /\ Holds(lease, r)
                                        /\ pc[r] = "appending" /\ pc'[r] \notin BeforeTurn
<1> USE DEF Bystands, Goto, End, UnderLease, BeforeTurn
<1>1. pc \in [Request -> Place] /\ r \in Request
  BY DEF IInv, TypeOK, Place, Request
<1>2. CASE LoadFails(r) \/ Restore(r) \/ StartModel(r) \/ Prompt(r) \/ PromptEnds(r)
          \/ Announce(r)
  BY <1>1, <1>2 DEF LoadFails, Restore, StartModel, Prompt, PromptEnds, Announce, durable
<1>3. CASE Enter(r)
  BY <1>1, <1>3 DEF Enter, durable
<1>4. CASE Settle(r)
  BY <1>1, <1>4 DEF Settle, durable
<1>5. CASE Break(r)
  BY <1>1, <1>5 DEF Break, Fail, durable
<1>6. CASE AppendTurn(r)
  BY <1>1, <1>6 DEF AppendTurn, Fail
<1>7. CASE AppendFails(r)
  BY <1>1, <1>7 DEF AppendFails, Fail
<1> QED BY <1>2, <1>3, <1>4, <1>5, <1>6, <1>7 DEF RunStep

\* Neither do submissions, tool calls, confirmations and cancellations.
LEMMA QuietBystands ==
  ASSUME IInv,
         \/ \E x \in Request : Submit(x)
         \/ \E r \in Run, t \in Tool : CallTool(r, t) \/ ToolStep(r, t)
         \/ \E c \in Confirm : ConfirmStep(c)
         \/ \E p \in Process : Cancel(p)
         \/ UNCHANGED vars
  PROVE  Bystands /\ transcript' = transcript
<1> USE DEF Bystands, Goto, End, UnderLease, BeforeTurn
<1>1. pc \in [Request -> Place]
  BY DEF IInv, TypeOK, Place
<1>2. ASSUME NEW x \in Request, Submit(x) PROVE Bystands /\ transcript' = transcript
  BY <1>1, <1>2 DEF Submit, durable
<1>3. ASSUME NEW r \in Run, NEW t \in Tool, CallTool(r, t) \/ ToolStep(r, t)
      PROVE  Bystands /\ transcript' = transcript
  BY <1>3 DEF CallTool, ToolStep, Judge, Execute, durable
<1>4. ASSUME NEW c \in Confirm, ConfirmStep(c) PROVE Bystands /\ transcript' = transcript
  BY <1>1, <1>4 DEF ConfirmStep, ConfirmAction, ExecuteAction, durable, Request
<1>5. ASSUME NEW p \in Process, Cancel(p) PROVE Bystands /\ transcript' = transcript
  BY <1>5 DEF Cancel, durable
<1>6. CASE UNCHANGED vars
  BY <1>6 DEF vars, durable
<1> QED BY <1>2, <1>3, <1>4, <1>5, <1>6

\* Who takes the lease finds it free, or run out under a holder that has lapsed.
LEMMA TakesLease ==
  ASSUME IInv, LeaseInv, NEW x \in Request, Acquire(x) \/ AcquireThrows(x)
  PROVE  LeaseInv'
<1>1. pc[x] = "acquiring" /\ pc \in [Request -> Place] /\ x # None
  BY LeaseAssumption DEF Acquire, AcquireThrows, IInv, TypeOK, Place, Request
<1>2. lapsed' = lapsed /\ \A y \in Request \ {x} : pc'[y] = pc[y]
  BY <1>1 DEF Acquire, AcquireThrows, Goto, End
<1>3. CASE holder' = holder /\ lease' = lease /\ pc'[x] \notin UnderLease
  BY <1>1, <1>2, <1>3 DEF LeaseInv, UnderLease, IInv, TypeOK
<1>4. CASE IsFree(lease) /\ lease' = LeaseOf(x) /\ holder' = x
  <2>1. \A y \in Request : pc[y] \in UnderLease => y \in lapsed
    <3>1. /\ holder \in Request \cup {None} /\ None \notin Request
          /\ \A y \in Request : OwnerOf[y] # None
      BY LeaseAssumption DEF IInv, TypeOK, Request
    <3> QED BY <1>4, <3>1 DEF LeaseInv, IsFree
  <2>2. lease'.owner = OwnerOf[x] /\ lease'.left # 0
    BY <1>4, LeaseAssumption DEF LeaseOf
  <2> QED BY <1>1, <1>2, <1>4, <2>1, <2>2 DEF LeaseInv
<1>5. pc'[x] \in UnderLease => IsFree(lease) /\ lease' = LeaseOf(x) /\ holder' = x
  BY <1>1 DEF Acquire, AcquireThrows, End, Goto, UnderLease
<1>6. \/ IsFree(lease) /\ lease' = LeaseOf(x) /\ holder' = x
      \/ lease' = lease /\ holder' = holder
  BY DEF Acquire, AcquireThrows
<1> QED BY <1>3, <1>4, <1>5, <1>6

\* Who gives the lease back gives back its own, if owners are distinct.
LEMMA LosesLease ==
  ASSUME IInv, LeaseInv, DistinctOwners, NEW x \in Request, GiveBack(x), Forget({x}),
         pc' = [pc EXCEPT ![x] = "ended"]
  PROVE  LeaseInv'
<1>1. pc'[x] = "ended" /\ \A y \in Request \ {x} : pc'[y] = pc[y]
  BY DEF IInv, TypeOK
<1>2. lapsed' = lapsed \ {x} /\ holder \in Request \cup {None} /\ None \notin Request
  BY LeaseAssumption DEF Forget, IInv, TypeOK, Request
<1>3. CASE UNCHANGED <<lease, holder>>
  BY <1>1, <1>2, <1>3 DEF LeaseInv, UnderLease
<1>4. CASE lease' = Released(lease, x) /\ holder' = IF lease' = lease THEN holder ELSE None
  <2>1. CASE lease.owner = OwnerOf[x]
    <3>1. lease.owner # None
      BY <2>1, LeaseAssumption
    <3>2. holder = x
      BY <1>2, <2>1, <3>1 DEF LeaseInv, NoLease, DistinctOwners
    <3>3. lease' = NoLease /\ holder' = None
      BY <1>4, <2>1, <3>1 DEF Released, NoLease
    <3> QED BY <1>1, <1>2, <3>2, <3>3 DEF LeaseInv, UnderLease
  <2>2. CASE lease.owner # OwnerOf[x]
    <3>1. UNCHANGED <<lease, holder>>
      BY <1>4, <2>2 DEF Released
    <3> QED BY <1>3, <3>1
  <2> QED BY <2>1, <2>2
<1> QED BY <1>3, <1>4 DEF GiveBack

\* A renewal is the holder's, and who holds a lease that runs out has lapsed.
LEMMA KeepsLease ==
  ASSUME IInv, LeaseInv, (\E x \in Request : Renew(x)) \/ Tick
  PROVE  LeaseInv'
<1>1. lease \in Lease /\ holder \in Request \cup {None} /\ None \notin Request /\ Ttl \in Nat \ {0}
  BY LeaseAssumption DEF IInv, TypeOK, Request
<1>2. CASE \E x \in Request : Renew(x)
  <2>1. PICK x \in Request : Renew(x)
    BY <1>2
  <2>2. lease' = lease \/ (lease' = LeaseOf(x) /\ Holds(lease, x))
    BY <2>1 DEF Renew, Renewed
  <2>3. UNCHANGED <<holder, lapsed, pc>>
    BY <2>1 DEF Renew
  <2>4. CASE lease' = lease
    BY <2>3, <2>4 DEF LeaseInv
  <2>5. CASE lease' = LeaseOf(x) /\ Holds(lease, x)
    <3>1. lease'.owner = lease.owner /\ lease'.left # 0 /\ lease.owner # None
      BY <1>1, <2>5, LeaseAssumption DEF LeaseOf, Holds
    <3> QED BY <2>3, <3>1 DEF LeaseInv, NoLease
  <2> QED BY <2>2, <2>4, <2>5
<1>3. CASE Tick
  <2>1. /\ lease.left > 0 /\ lease' = Aged(lease) /\ UNCHANGED <<holder, pc>>
        /\ lapsed' = lapsed \cup {x \in Request : x = holder /\ lease.left = 1 /\ pc[x] \in UnderLease}
    BY <1>3 DEF Tick
  <2>2. lease'.owner = lease.owner /\ lease'.left = lease.left - 1 /\ lease.left \in Nat
    BY <1>1, <2>1 DEF Aged, Lease
  <2>3. holder # None
    BY <2>1 DEF LeaseInv, NoLease
  <2> QED BY <1>1, <2>1, <2>2, <2>3 DEF LeaseInv
<1> QED BY <1>2, <1>3

\* A crash leaves the lease to the time.
LEMMA CrashLease ==
  ASSUME IInv, LeaseInv, NEW p \in Process, Crash(p) PROVE LeaseInv'
<1>1. PICK Gone \in SUBSET Request :
        /\ pc' = [x \in Request |-> IF x \in Gone THEN "crashed" ELSE pc[x]]
        /\ lapsed' = lapsed \ Gone /\ UNCHANGED <<lease, holder>>
  BY DEF Crash, Forget
<1>2. \A x \in Request : pc'[x] \in UnderLease => x \notin Gone /\ pc[x] \in UnderLease
  BY <1>1 DEF UnderLease
<1>3. holder \in Request \cup {None}
  BY DEF IInv, TypeOK
<1> QED BY <1>1, <1>2, <1>3 DEF LeaseInv

\* With distinct owners every step keeps the lease its holder's.
LEMMA NextLease == DistinctOwners => (IInv /\ LeaseInv /\ [Next]_vars => LeaseInv')
<1> SUFFICES ASSUME DistinctOwners, IInv, LeaseInv, [Next]_vars PROVE LeaseInv'
  OBVIOUS
<1>1. ASSUME NEW x \in Request, LeaseStep(x) PROVE LeaseInv'
  BY <1>1, TakesLease, LosesLease DEF LeaseStep, Close, Goto
<1>2. ASSUME NEW r \in Run, RunStep(r) PROVE LeaseInv'
  <2>1. CASE Leave(r)
    <3>1. r \in Request /\ pc' = [pc EXCEPT ![r] = "ended"]
      BY <2>1 DEF Leave, Goto, End, Request
    <3> QED BY <2>1, <3>1, LosesLease DEF Leave
  <2>2. CASE ~Leave(r)
    BY <1>2, <2>2, RunBystands, Bystanding
  <2> QED BY <2>1, <2>2
<1>3. CASE (\E x \in Request : Renew(x)) \/ Tick
  BY <1>3, KeepsLease
<1>4. ASSUME NEW p \in Process, Crash(p) PROVE LeaseInv'
  BY <1>4, CrashLease
<1>5. CASE \/ \E x \in Request : Submit(x)
           \/ \E r \in Run, t \in Tool : CallTool(r, t) \/ ToolStep(r, t)
           \/ \E c \in Confirm : ConfirmStep(c)
           \/ \E p \in Process : Cancel(p)
           \/ UNCHANGED vars
  BY <1>5, QuietBystands, Bystanding
<1> QED BY <1>1, <1>2, <1>3, <1>4, <1>5 DEF Next

\* At first nobody holds the lease.
LEMMA InitLease == Init => LeaseInv
BY DEF Init, LeaseInv, UnderLease

\* With distinct owners two requests are under way in one session only after the lease of one
\* of them has run out (acquire, renew and release of the session coordinator).
THEOREM ExclusiveWithDistinctOwners == ASSUME DistinctOwners PROVE Spec => []ExclusiveUnlessLapsed
<1>1. LeaseInv => ExclusiveUnlessLapsed
  BY DEF LeaseInv, ExclusiveUnlessLapsed
<1>2. IInv /\ LeaseInv /\ [Next]_vars => LeaseInv'
  BY NextLease
<1> QED BY <1>1, <1>2, InitLease, Invariance, PTL DEF Spec

\* With distinct owners nobody but its holder, and the time, ends a lease: what two
\* confirmations of one action violate is due to their common owner and nothing else.
THEOREM LeasesEndWithTheirHolder == ASSUME DistinctOwners PROVE Spec => LeaseEndsWithHolder
<1>1. IInv /\ LeaseInv /\ [Next]_vars =>
        [\A x \in Request : holder = x /\ holder' # x => lease.left = 0 \/ pc'[x] # pc[x]]_vars
  <2> SUFFICES ASSUME IInv, LeaseInv, Next, NEW x \in Request, holder = x, holder' # x
               PROVE  lease.left = 0 \/ pc'[x] # pc[x]
    OBVIOUS
  <2>1. lease.owner = OwnerOf[x] /\ OwnerOf[x] # None /\ x # None
    BY LeaseAssumption DEF LeaseInv, Request
  <2>2. ASSUME NEW y \in Request, Acquire(y) \/ AcquireThrows(y) PROVE lease.left = 0
    BY <2>1, <2>2 DEF Acquire, AcquireThrows, IsFree
  <2>3. ASSUME NEW y \in Request, GiveBack(y), pc' = [pc EXCEPT ![y] = "ended"], pc[y] # "ended"
        PROVE  pc'[x] # pc[x]
    <3>1. lease.owner = OwnerOf[y]
      BY <2>3 DEF GiveBack, Released
    <3>2. x = y
      BY <2>1, <3>1 DEF DistinctOwners
    <3> QED BY <2>3, <3>2 DEF IInv, TypeOK
  <2>4. ASSUME NEW y \in Request, LeaseStep(y) PROVE lease.left = 0 \/ pc'[x] # pc[x]
    BY <2>2, <2>3, <2>4 DEF LeaseStep, Close, Goto
  <2>5. ASSUME NEW r \in Run, RunStep(r) PROVE lease.left = 0 \/ pc'[x] # pc[x]
    <3>1. CASE Leave(r)
      BY <2>3, <3>1 DEF Leave, Goto, End, Request
    <3>2. CASE ~Leave(r)
      BY <2>5, <3>2, RunBystands DEF Bystands, leaseVars
    <3> QED BY <3>1, <3>2
  <2>6. ~((\E y \in Request : Renew(y)) \/ Tick \/ \E p \in Process : Crash(p))
    BY DEF Renew, Tick, Crash
  <2>7. ~(\/ \E y \in Request : Submit(y)
          \/ \E r \in Run, t \in Tool : CallTool(r, t) \/ ToolStep(r, t)
          \/ \E c \in Confirm : ConfirmStep(c)
          \/ \E p \in Process : Cancel(p))
    BY QuietBystands DEF Bystands, leaseVars
  <2> QED BY <2>4, <2>5, <2>6, <2>7 DEF Next
<1>2. IInv /\ LeaseInv /\ [Next]_vars => LeaseInv'
  BY NextLease
<1>3. Spec => []LeaseInv
  BY <1>2, InitLease, Invariance, PTL DEF Spec
<1> QED BY <1>1, <1>3, Invariance, PTL DEF Spec, LeaseEndsWithHolder

\* A run's base stays the length of the transcript while it holds the lease it took.
LEMMA IsolationStands ==
  ASSUME IInv, IsolatedInv, transcript' = transcript,
         \A r \in Run : pc'[r] \in BeforeTurn /\ Holds(lease', r) =>
           \/ pc[r] \in BeforeTurn /\ Holds(lease, r) /\ base'[r] = base[r]
           \/ base'[r] = Len(transcript)
  PROVE  IsolatedInv'
BY DEF IsolatedInv, Holds

\* The run that appends is the one that holds the lease, so no other relies on the length.
LEMMA TurnsApart ==
  ASSUME RunsOwnTheirLease, IInv, IsolatedInv, NEW r \in Run, RunStep(r), ~Leave(r)
  PROVE  /\ IsolatedInv'
         /\ transcript' # transcript => transcript' = Append(transcript, r) /\ base[r] = Len(transcript)
<1>1. /\ Bystands
      /\ transcript' # transcript => transcript' = Append(transcript, r) /\ Holds(lease, r)
                                     /\ pc[r] = "appending" /\ pc'[r] \notin BeforeTurn
  BY RunBystands
<1>2. Run \subseteq Request /\ lease' = lease /\ base' = base
  BY <1>1 DEF Bystands, leaseVars, Request
<1>3. CASE transcript' = transcript
  BY <1>1, <1>2, <1>3, IsolationStands DEF Bystands
<1>4. CASE transcript' # transcript
  <2>1. Holds(lease, r) /\ pc[r] = "appending" /\ pc'[r] \notin BeforeTurn
    BY <1>1, <1>4
  <2>2. \A q \in Run \ {r} : ~Holds(lease, q)
    BY <1>2, <2>1 DEF Holds, RunsOwnTheirLease
  <2>3. IsolatedInv'
    BY <1>2, <2>1, <2>2 DEF IsolatedInv, Holds
  <2>4. base[r] = Len(transcript)
    BY <2>1 DEF IsolatedInv, BeforeTurn
  <2> QED BY <1>1, <1>4, <2>3, <2>4
<1> QED BY <1>3, <1>4

\* Who takes the lease notes the length of the transcript, and nobody else holds the lease then.
LEMMA LeaseApart ==
  ASSUME RunsOwnTheirLease, IInv, IsolatedInv, NEW x \in Request, Acquire(x) \/ AcquireThrows(x)
  PROVE  IsolatedInv' /\ transcript' = transcript
<1>1. /\ pc[x] = "acquiring" /\ pc \in [Request -> Place] /\ base \in [Run -> Nat]
      /\ Run \subseteq Request /\ transcript' = transcript
  BY DEF Acquire, AcquireThrows, durable, IInv, TypeOK, Place, Request
<1>2. \A y \in Request \ {x} : pc'[y] = pc[y]
  BY <1>1 DEF Acquire, AcquireThrows, Goto, End
<1>3. \A r \in Run \ {x} : base'[r] = base[r]
  BY <1>1 DEF Acquire, AcquireThrows
<1>4. lease' = lease \/ lease' = LeaseOf(x)
  BY DEF Acquire, AcquireThrows
<1>5. \A r \in Run \ {x} : Holds(lease', r) => Holds(lease, r)
  BY <1>1, <1>4 DEF Holds, LeaseOf, RunsOwnTheirLease
<1>6. x \in Run /\ pc'[x] \in BeforeTurn => base'[x] = Len(transcript)
  BY <1>1 DEF Acquire, AcquireThrows, Goto, End, BeforeTurn
<1> QED BY <1>1, <1>2, <1>3, <1>5, <1>6, IsolationStands

\* Giving the lease back makes nobody hold it.
LEMMA EndsApart ==
  ASSUME IInv, IsolatedInv, NEW x \in Request, GiveBack(x), Forget({x}),
         pc' = [pc EXCEPT ![x] = "ended"], transcript' = transcript
  PROVE  IsolatedInv'
<1>1. pc'[x] = "ended" /\ \A y \in Request \ {x} : pc'[y] = pc[y]
  BY DEF IInv, TypeOK
<1>2. \A r \in Run \ {x} : base'[r] = base[r]
  BY DEF Forget
<1>3. \A r \in Run : Holds(lease', r) => Holds(lease, r)
  BY LeaseAssumption DEF GiveBack, Released, NoLease, Holds, Request
<1> QED BY <1>1, <1>2, <1>3, IsolationStands DEF BeforeTurn, Request

\* Renewals, the time and crashes make nobody hold the lease.
LEMMA OthersApart ==
  ASSUME IInv, IsolatedInv, (\E x \in Request : Renew(x)) \/ Tick \/ (\E p \in Process : Crash(p))
  PROVE  IsolatedInv' /\ transcript' = transcript
<1>1. transcript' = transcript
  BY DEF Renew, Tick, Crash, durable
<1>2. \A r \in Run : Holds(lease', r) => Holds(lease, r)
  <2>1. CASE \E x \in Request : Renew(x)
    BY <2>1 DEF Renew, Renewed, Holds, LeaseOf
  <2>2. CASE Tick
    <3>1. lease \in Lease /\ lease' = Aged(lease) /\ lease.left > 0 /\ Ttl \in Nat
      BY <2>2, LeaseAssumption DEF Tick, IInv, TypeOK
    <3>2. lease'.owner = lease.owner
      BY <3>1 DEF Aged, Lease
    <3> QED BY <3>1, <3>2 DEF Holds
  <2>3. CASE \E p \in Process : Crash(p)
    BY <2>3 DEF Crash
  <2> QED BY <2>1, <2>2, <2>3
<1>3. \A r \in Run : pc'[r] \in BeforeTurn => pc[r] \in BeforeTurn /\ base'[r] = base[r]
  BY DEF Renew, Tick, Crash, Forget, BeforeTurn, Request
<1> QED BY <1>1, <1>2, <1>3, IsolationStands

\* Every step keeps the turns isolated.
LEMMA NextIsolated ==
  RunsOwnTheirLease =>
    (IInv /\ IsolatedInv /\ [Next]_vars =>
       IsolatedInv' /\ [\E r \in Run : /\ transcript' = Append(transcript, r)
                                       /\ base[r] = Len(transcript)]_transcript)
<1> SUFFICES ASSUME RunsOwnTheirLease, IInv, IsolatedInv, [Next]_vars
             PROVE  IsolatedInv' /\ [\E r \in Run : /\ transcript' = Append(transcript, r)
                                                    /\ base[r] = Len(transcript)]_transcript
  OBVIOUS
<1>1. ASSUME NEW x \in Request, LeaseStep(x) PROVE IsolatedInv' /\ transcript' = transcript
  <2>1. CASE Acquire(x) \/ AcquireThrows(x)
    BY <2>1, LeaseApart
  <2>2. CASE Close(x)
    BY <2>2, EndsApart DEF Close, Goto, durable
  <2> QED BY <1>1, <2>1, <2>2 DEF LeaseStep
<1>2. ASSUME NEW r \in Run, RunStep(r)
      PROVE  /\ IsolatedInv'
             /\ transcript' # transcript =>
                  transcript' = Append(transcript, r) /\ base[r] = Len(transcript)
  <2>1. CASE Leave(r)
    <3>1. r \in Request /\ pc' = [pc EXCEPT ![r] = "ended"] /\ transcript' = transcript
      BY <2>1 DEF Leave, Goto, End, Request, durable
    <3> QED BY <2>1, <3>1, EndsApart DEF Leave
  <2>2. CASE ~Leave(r)
    BY <1>2, <2>2, TurnsApart
  <2> QED BY <2>1, <2>2
<1>3. CASE (\E x \in Request : Renew(x)) \/ Tick \/ \E p \in Process : Crash(p)
  BY <1>3, OthersApart
<1>4. CASE \/ \E x \in Request : Submit(x)
           \/ \E r \in Run, t \in Tool : CallTool(r, t) \/ ToolStep(r, t)
           \/ \E c \in Confirm : ConfirmStep(c)
           \/ \E p \in Process : Cancel(p)
           \/ UNCHANGED vars
  <2>1. Bystands /\ transcript' = transcript
    BY <1>4, QuietBystands
  <2> QED BY <2>1, IsolationStands DEF Bystands, leaseVars, Request
<1> QED BY <1>1, <1>2, <1>3, <1>4 DEF Next

\* If no other request has the identifier of a run, a turn is kept only when no other was since
\* its run took the lease, even if the run slept through the loss (the fence of appendTurn).
THEOREM TurnsAreIsolatedByOwner == ASSUME RunsOwnTheirLease PROVE Spec => TurnsAreIsolated
<1>1. Init => IsolatedInv
  BY DEF Init, IsolatedInv, BeforeTurn, Request
<1>2. IInv /\ IsolatedInv /\ [Next]_vars => IsolatedInv'
  BY NextIsolated
<1>3. IInv /\ IsolatedInv /\ [Next]_vars =>
        [\E r \in Run : transcript' = Append(transcript, r) /\ base[r] = Len(transcript)]_transcript
  BY NextIsolated
<1>4. Spec => []IsolatedInv
  BY <1>1, <1>2, Invariance, PTL DEF Spec
<1> QED BY <1>3, <1>4, Invariance, PTL DEF Spec, TurnsAreIsolated
=============================================================================
