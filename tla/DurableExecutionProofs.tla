------------------------ MODULE DurableExecutionProofs ------------------------
(***************************************************************************)
(* Proofs about DurableExecution, for any number of calls, hosts, keys and *)
(* executions, any lease and any clock.                                    *)
(*                                                                         *)
(* A key has one owner: whoever inserted its rows (OneOwner).  Nobody else *)
(* sends its side effect, and nobody else records a verdict but an unknown *)
(* one, so the tables agree and no answer contradicts them, whatever the   *)
(* calls share (IInv).  That the verdict is honest takes one thing more,   *)
(* that no two calls carry the same execution identifier: else a replay    *)
(* deletes the record of the owner (the finding of durable_replay), and an *)
(* effect that is under way is recorded as FAILED (FreshInv).              *)
(***************************************************************************)
EXTENDS DurableExecution, TLAPS

\* What a call knows of its key.
CallOK(c) ==
  /\ IF pc[c] = "idle" THEN outcome[c] = None /\ answer[c] = None /\ host[c] = None
     ELSE req[c] \in RequestsOf[c] /\ host[c] \in Host
  /\ pc[c] \in Owning => status[KeyOf(c)] \in {"IN_PROGRESS", "OUTCOME_UNKNOWN"}
  /\ pc[c] \in Owning => ownedBy[KeyOf(c)] = IdOf(c)
  /\ pc[c] \in {"acquired", "queued"} => tool[KeyOf(c)] = "none"
  /\ pc[c] = "ended" => outcome[c] # None
  /\ answer[c] \in Final \ {"OUTCOME_UNKNOWN"} => status[KeyOf(c)] = answer[c]

\* What is recorded of a key.
KeyOK(k) ==
  /\ status[k] = "ABSENT" => ownedBy[k] = None /\ tool[k] = "none"
  /\ status[k] # "ABSENT" =>
       /\ ownedBy[k] \in Execution
       /\ execution[ownedBy[k]] = IF status[k] = "IN_PROGRESS" THEN "RUNNING" ELSE status[k]
  /\ effects[k] = IF tool[k] = "done" THEN 1 ELSE 0

OneOwner ==
  \A c, d \in Call : {pc[c], pc[d]} \subseteq Owning /\ KeyOf(c) = KeyOf(d) => c = d

OneKey ==
  /\ \A k, l \in Key : ownedBy[k] # None /\ ownedBy[k] = ownedBy[l] => k = l
  /\ \A e \in Execution : execution[e] # "ABSENT" => \E k \in Key : ownedBy[k] = e

\* The inductive invariant, whatever the calls share.
IInv ==
  /\ TypeOK
  /\ \A c \in Call : CallOK(c)
  /\ \A k \in Key : KeyOK(k)
  /\ OneOwner
  /\ OneKey

\* The runtime draws a new execution identifier for every call.
FreshIds ==
  \A c, d \in Call : \A r \in RequestsOf[c], s \in RequestsOf[d] :
    r.execution = s.execution => c = d

\* What the outcome of an owner that has ended says of the tool.
OutcomeOK(c) ==
  pc[c] = "ended" =>
    /\ outcome[c] = "SUCCEEDED" => tool[KeyOf(c)] = "done"
    /\ outcome[c] = "FAILED" => tool[KeyOf(c)] # "sent"
    /\ outcome[c] = "REJECTED" => tool[KeyOf(c)] = "none"

\* The inductive invariant of calls with identifiers of their own.
FreshInv ==
  /\ OwnerRecordKept
  /\ \A c \in Call : OutcomeOK(c)
  /\ \A k \in Key : tool[k] = "sent" => status[k] \in {"IN_PROGRESS", "OUTCOME_UNKNOWN"}

------------------------------------------------------------------------------
(* What one call may do to the others.                                     *)

(***************************************************************************)
(* What every step respects, c being the call that takes it: a key that is *)
(* claimed stays claimed, a verdict stands, and only the owner of a key    *)
(* sends its side effect or records a verdict but an unknown one.          *)
(***************************************************************************)
Respects(c) ==
  /\ \A d \in Call \ {c} : /\ pc'[d] = pc[d] /\ host'[d] = host[d] /\ req'[d] = req[d]
                           /\ outcome'[d] = outcome[d] /\ answer'[d] = answer[d]
  /\ \A k \in Key : status[k] # "ABSENT" => status'[k] # "ABSENT" /\ ownedBy'[k] = ownedBy[k]
  /\ \A k \in Key : status[k] \in Final => status'[k] = status[k]
  /\ \A k \in Key :
       \/ c \in Call /\ pc[c] \in Owning /\ k = KeyOf(c)
       \/ /\ status'[k] \in {status[k], "IN_PROGRESS", "OUTCOME_UNKNOWN"}
          /\ tool[k] = "none" => tool'[k] = "none"

\* Calls carry requests.
LEMMA Requests == \A c \in Call : \A r \in RequestsOf[c] : r \in Request
<1>1. RequestsOf \in [Call -> SUBSET Request]
  BY ConstantsAssumption DEF Request
<1> QED BY <1>1

\* A call that has started names its key and its execution.
LEMMA Started ==
  ASSUME IInv, NEW c \in Call, pc[c] # "idle"
  PROVE  /\ req[c] \in Request /\ KeyOf(c) \in Key /\ IdOf(c) \in Execution
         /\ host[c] \in Host
<1>1. req[c] \in RequestsOf[c] /\ host[c] \in Host
  BY DEF IInv, CallOK
<1>2. req[c] \in Request
  BY <1>1, Requests
<1> QED BY <1>1, <1>2 DEF Request, KeyOf, IdOf

\* Whatever a call does, the others go on knowing what they know.
LEMMA OthersStand ==
  ASSUME IInv, NEW c, Respects(c), NEW d \in Call \ {c}
  PROVE  CallOK(d)'
<1>1. /\ pc'[d] = pc[d] /\ host'[d] = host[d] /\ req'[d] = req[d]
      /\ outcome'[d] = outcome[d] /\ answer'[d] = answer[d]
  BY DEF Respects
<1>2. CallOK(d)
  BY DEF IInv
<1>3. CASE pc[d] = "idle"
  BY <1>1, <1>2, <1>3, NoneAssumption DEF CallOK, Owning, Answer
<1>4. CASE pc[d] # "idle"
  <2> PICK k \in Key : k = KeyOf(d)
    BY <1>4, Started
  <2>1. KeyOf(d)' = k /\ IdOf(d)' = IdOf(d)
    BY <1>1 DEF KeyOf, IdOf
  <2>2. pc[d] \in Owning => ~(c \in Call /\ pc[c] \in Owning /\ k = KeyOf(c))
    BY DEF IInv, OneOwner
  <2>3. /\ status[k] # "ABSENT" => ownedBy'[k] = ownedBy[k]
        /\ status[k] \in Final => status'[k] = status[k]
        /\ pc[d] \in Owning => /\ status'[k] \in {status[k], "IN_PROGRESS", "OUTCOME_UNKNOWN"}
                               /\ tool[k] = "none" => tool'[k] = "none"
    BY <2>2 DEF Respects
  <2>4. pc[d] \in {"acquired", "queued"} => pc[d] \in Owning
    BY DEF Owning
  <2> QED BY <1>1, <1>2, <2>1, <2>3, <2>4 DEF CallOK
<1> QED BY <1>3, <1>4

\* Who was no owner becomes none while the key is claimed.
LEMMA OneOwnerStands ==
  ASSUME IInv, NEW c, Respects(c),
         c \in Call /\ pc'[c] \in Owning =>
           /\ pc[c] # "idle" /\ req'[c] = req[c]
           /\ pc[c] \in Owning \/ status[KeyOf(c)] = "ABSENT"
  PROVE  OneOwner'
<1> SUFFICES ASSUME NEW d \in Call, NEW e \in Call, pc'[d] \in Owning, pc'[e] \in Owning,
                    KeyOf(d)' = KeyOf(e)'
             PROVE  d = e
  BY DEF OneOwner
<1>1. \A f \in Call : pc'[f] \in Owning => req'[f] = req[f]
  BY DEF Respects
<1>2. KeyOf(d) = KeyOf(e)
  BY <1>1 DEF KeyOf
<1>3. \A f \in Call : pc[f] \in Owning => status[KeyOf(f)] # "ABSENT"
  BY DEF IInv, CallOK
<1>4. \A f \in Call : pc'[f] \in Owning => pc[f] \in Owning \/ f = c
  BY DEF Respects
<1>5. pc[d] \in Owning /\ pc[e] \in Owning => d = e
  BY <1>2 DEF IInv, OneOwner
<1> QED BY <1>2, <1>3, <1>4, <1>5

\* What is left to show of a step that changes nothing but its call: what the call then knows.
LEMMA CallMoves ==
  ASSUME IInv, NEW c \in Call, TypeOK', CallOK(c)',
         UNCHANGED <<execution, status, ownedBy, tool, effects>>,
         \A d \in Call \ {c} : /\ pc'[d] = pc[d] /\ host'[d] = host[d] /\ req'[d] = req[d]
                               /\ outcome'[d] = outcome[d] /\ answer'[d] = answer[d],
         pc'[c] \in Owning => pc[c] \in Owning /\ req'[c] = req[c]
  PROVE  IInv' /\ Respects(c)
<1>1. Respects(c)
  BY DEF Respects
<1>2. \A d \in Call : CallOK(d)'
  BY <1>1, OthersStand
<1>3. \A k \in Key : KeyOK(k)'
  BY DEF IInv, KeyOK
<1>4. OneOwner'
  BY <1>1, OneOwnerStands DEF Owning
<1>5. OneKey'
  BY DEF IInv, OneKey
<1> QED BY <1>1, <1>2, <1>3, <1>4, <1>5 DEF IInv

------------------------------------------------------------------------------
(* Steps that change nothing but their call.                               *)

\* A call that starts has been answered nothing.
LEMMA StartStep ==
  ASSUME IInv, NEW c \in Call, Start(c) PROVE IInv' /\ Respects(c)
<1>1. PICK h \in Host, r \in RequestsOf[c] :
        host' = [host EXCEPT ![c] = h] /\ req' = [req EXCEPT ![c] = r]
  BY DEF Start
<1>2. /\ pc[c] = "idle" /\ pc' = [pc EXCEPT ![c] = "coordinate"]
      /\ UNCHANGED <<dbNow, execution, status, boundTo, ownedBy, ownerExpiresAt, inflight,
                     records, outcome, leaseLost, answer, tool, effects>>
  BY DEF Start, At, tables, memory, world
<1>3. r \in Request
  BY Requests
<1>4. TypeOK'
  BY <1>1, <1>2, <1>3 DEF IInv, TypeOK, PC
<1>5. answer[c] = None
  BY <1>2 DEF IInv, CallOK
<1>6. CallOK(c)'
  BY <1>1, <1>2, <1>5, NoneAssumption DEF CallOK, IInv, TypeOK, Owning, Answer
<1>7. \A d \in Call \ {c} : /\ pc'[d] = pc[d] /\ host'[d] = host[d] /\ req'[d] = req[d]
                            /\ outcome'[d] = outcome[d] /\ answer'[d] = answer[d]
  BY <1>1, <1>2 DEF IInv, TypeOK
<1>8. pc'[c] \notin Owning
  BY <1>2 DEF IInv, TypeOK, Owning
<1> QED BY <1>2, <1>4, <1>6, <1>7, <1>8, CallMoves

(***************************************************************************)
(* A call goes on, or leaves with an answer that agrees with its key, if   *)
(* nothing is recorded meanwhile.                                          *)
(***************************************************************************)
LEMMA GoesOn ==
  ASSUME IInv, NEW c \in Call, pc[c] # "idle", NEW place \in PC \ {"idle"},
         pc' = [pc EXCEPT ![c] = place], UNCHANGED <<host, req>>,
         place \in Owning => pc[c] \in Owning,
         place \in {"acquired", "queued"} => pc[c] \in {"acquired", "queued"},
         NEW o \in Final \cup {None}, outcome' = [outcome EXCEPT ![c] = o],
         place = "ended" => o # None,
         NEW a \in Answer \cup {None}, answer' = [answer EXCEPT ![c] = a],
         a \in Final \ {"OUTCOME_UNKNOWN"} => status[KeyOf(c)] = a,
         leaseLost' \in [Call -> BOOLEAN],
         UNCHANGED <<dbNow, execution, status, boundTo, ownedBy, tool, effects>>,
         ownerExpiresAt' \in [Key -> Nat],
         inflight' \in [Host -> [Key -> Call \cup {None}]],
         records' \in [Host -> SUBSET Execution]
  PROVE  IInv' /\ Respects(c)
<1>1. CallOK(c)
  BY DEF IInv
<1>2. TypeOK'
  BY DEF IInv, TypeOK
<1>3. /\ pc'[c] = place /\ outcome'[c] = o /\ answer'[c] = a
      /\ \A d \in Call \ {c} : /\ pc'[d] = pc[d] /\ host'[d] = host[d] /\ req'[d] = req[d]
                               /\ outcome'[d] = outcome[d] /\ answer'[d] = answer[d]
  BY DEF IInv, TypeOK
<1>4. CallOK(c)'
  BY <1>1, <1>3 DEF CallOK, KeyOf, IdOf
<1> QED BY <1>2, <1>3, <1>4, CallMoves

\* Who finds no owner on its host asks the database.
LEMMA CoordinateStep ==
  ASSUME IInv, NEW c \in Call, Coordinate(c) PROVE IInv' /\ Respects(c)
<1>1. /\ pc[c] = "coordinate"
      /\ UNCHANGED <<dbNow, execution, status, boundTo, ownedBy, ownerExpiresAt, inflight,
                     records, host, req, outcome, leaseLost, tool, effects>>
  BY DEF Coordinate, At, GoTo, Answers, tables, memory, world
<1>2. \/ pc' = [pc EXCEPT ![c] = "acquire"] /\ answer' = answer
      \/ pc' = [pc EXCEPT ![c] = "following"] /\ answer' = answer
      \/ pc' = [pc EXCEPT ![c] = "leaving"] /\ answer' = [answer EXCEPT ![c] = "CONFLICT"]
  BY DEF Coordinate, GoTo, Answers
<1>3. /\ outcome' = [outcome EXCEPT ![c] = outcome[c]] /\ outcome[c] \in Final \cup {None}
      /\ leaseLost' \in [Call -> BOOLEAN] /\ ownerExpiresAt' \in [Key -> Nat]
      /\ inflight' \in [Host -> [Key -> Call \cup {None}]]
      /\ records' \in [Host -> SUBSET Execution]
  BY <1>1 DEF IInv, TypeOK
<1>4. CASE answer' = answer
  <2>1. PICK place \in {"acquire", "following", "leaving"} : pc' = [pc EXCEPT ![c] = place]
    BY <1>2
  <2>2. answer' = [answer EXCEPT ![c] = answer[c]] /\ answer[c] \in Answer \cup {None}
    BY <1>4 DEF IInv, TypeOK
  <2>3. answer[c] \in Final \ {"OUTCOME_UNKNOWN"} => status[KeyOf(c)] = answer[c]
    BY DEF IInv, CallOK
  <2>4. place \in PC \ {"idle", "ended", "acquired", "queued"} /\ place \notin Owning
    BY DEF PC, Owning
  <2> QED BY <1>1, <1>3, <2>1, <2>2, <2>3, <2>4, GoesOn
<1>5. CASE pc' = [pc EXCEPT ![c] = "leaving"] /\ answer' = [answer EXCEPT ![c] = "CONFLICT"]
  <2>1. PICK place \in {"leaving"}, a \in {"CONFLICT"} :
          pc' = [pc EXCEPT ![c] = place] /\ answer' = [answer EXCEPT ![c] = a]
    BY <1>5
  <2>2. place \in PC \ {"idle", "ended", "acquired", "queued"} /\ place \notin Owning
    BY DEF PC, Owning
  <2>3. a \in Answer \cup {None} /\ a \notin Final
    BY DEF Answer, Final
  <2> QED BY <1>1, <1>3, <2>1, <2>2, <2>3, GoesOn
<1> QED BY <1>2, <1>4, <1>5

\* The leader's answer is about the same key.
LEMMA FollowStep ==
  ASSUME IInv, NEW c \in Call, Follow(c) PROVE IInv' /\ Respects(c)
<1>1. /\ pc[c] = "following" /\ pc' = [pc EXCEPT ![c] = "leaving"]
      /\ UNCHANGED <<dbNow, execution, status, boundTo, ownedBy, ownerExpiresAt, inflight,
                     records, host, req, outcome, leaseLost, tool, effects>>
  BY DEF Follow, At, Answers, tables, memory, world
<1>2. PICK leader \in Call : /\ KeyOf(leader) = KeyOf(c) /\ answer[leader] # None
                             /\ \/ answer' = [answer EXCEPT ![c] = answer[leader]]
                                \/ answer' = [answer EXCEPT ![c] = "ERROR"]
  BY DEF Follow, Answers
<1>3. /\ outcome' = [outcome EXCEPT ![c] = outcome[c]] /\ outcome[c] \in Final \cup {None}
      /\ leaseLost' \in [Call -> BOOLEAN] /\ ownerExpiresAt' \in [Key -> Nat]
      /\ inflight' \in [Host -> [Key -> Call \cup {None}]]
      /\ records' \in [Host -> SUBSET Execution]
  BY <1>1 DEF IInv, TypeOK
<1>4. answer[leader] \in Final \ {"OUTCOME_UNKNOWN"} => status[KeyOf(c)] = answer[leader]
  BY <1>2 DEF IInv, CallOK
<1>5. PICK a \in {answer[leader], "ERROR"} : answer' = [answer EXCEPT ![c] = a]
  BY <1>2
<1>6. a \in Answer \cup {None} /\ (a \in Final \ {"OUTCOME_UNKNOWN"} => status[KeyOf(c)] = a)
  BY <1>4, <1>5 DEF Answer, Final, IInv, TypeOK
<1>7. PICK place \in {"leaving"} : pc' = [pc EXCEPT ![c] = place]
  BY <1>1
<1>8. place \in PC \ {"idle", "ended", "acquired", "queued"} /\ place \notin Owning
  BY DEF PC, Owning
<1> QED BY <1>1, <1>3, <1>5, <1>6, <1>7, <1>8, GoesOn

\* A step of an owner that writes no table leaves its answer alone.
LEMMA OwnerGoesOn ==
  ASSUME IInv, NEW c \in Call, pc[c] \in Owning, NEW place \in Owning,
         pc' = [pc EXCEPT ![c] = place],
         place \in {"acquired", "queued"} => pc[c] \in {"acquired", "queued"},
         NEW o \in Final \cup {None}, outcome' = [outcome EXCEPT ![c] = o],
         place = "ended" => o # None,
         UNCHANGED <<dbNow, execution, status, boundTo, ownedBy, ownerExpiresAt, host, req,
                     leaseLost, answer, tool, effects>>,
         inflight' \in [Host -> [Key -> Call \cup {None}]],
         records' \in [Host -> SUBSET Execution]
  PROVE  IInv' /\ Respects(c)
<1>1. answer' = [answer EXCEPT ![c] = answer[c]] /\ answer[c] \in Answer \cup {None}
  BY DEF IInv, TypeOK
<1>2. answer[c] \in Final \ {"OUTCOME_UNKNOWN"} => status[KeyOf(c)] = answer[c]
  BY DEF IInv, CallOK
<1>3. place \in PC \ {"idle"} /\ pc[c] # "idle"
  BY DEF PC, Owning
<1>4. leaseLost' \in [Call -> BOOLEAN] /\ ownerExpiresAt' \in [Key -> Nat]
  BY DEF IInv, TypeOK
<1> QED BY <1>1, <1>2, <1>3, <1>4, GoesOn

\* The owner registers on its host.
LEMMA RunOwnerStep ==
  ASSUME IInv, NEW c \in Call, RunOwner(c) PROVE IInv' /\ Respects(c)
<1>1. /\ pc[c] = "acquired" /\ pc' = [pc EXCEPT ![c] = "queued"]
      /\ inflight' = [inflight EXCEPT ![host[c]][KeyOf(c)] = c]
      /\ records' = [records EXCEPT ![host[c]] = @ \cup {IdOf(c)}]
      /\ UNCHANGED <<dbNow, execution, status, boundTo, ownedBy, ownerExpiresAt, host, req,
                     outcome, leaseLost, answer, tool, effects>>
  BY DEF RunOwner, At, GoTo, tables, world
<1>2. KeyOf(c) \in Key /\ IdOf(c) \in Execution /\ host[c] \in Host
  BY <1>1, Started
<1>3. /\ inflight' \in [Host -> [Key -> Call \cup {None}]]
      /\ records' \in [Host -> SUBSET Execution]
  BY <1>1, <1>2 DEF IInv, TypeOK
<1>4. outcome' = [outcome EXCEPT ![c] = outcome[c]] /\ outcome[c] \in Final \cup {None}
  BY <1>1 DEF IInv, TypeOK
<1> QED BY <1>1, <1>3, <1>4, OwnerGoesOn DEF Owning

\* An owner that ends has an outcome.
LEMMA EndsStep ==
  ASSUME IInv, NEW c \in Call, pc[c] \in Owning, NEW o \in Final, Ends(c, o),
         UNCHANGED <<dbNow, tables, memory, world>>
  PROVE  IInv' /\ Respects(c)
<1>1. /\ pc' = [pc EXCEPT ![c] = "ended"] /\ outcome' = [outcome EXCEPT ![c] = o]
      /\ UNCHANGED <<dbNow, execution, status, boundTo, ownedBy, ownerExpiresAt, inflight,
                     records, host, req, leaseLost, answer, tool, effects>>
  BY DEF Ends, tables, memory, world
<1>2. o # None
  BY NoneAssumption DEF Answer
<1> QED BY <1>1, <1>2, OwnerGoesOn DEF Owning, IInv, TypeOK

\* Before the tool is called, or after.
LEMMA OutcomeStep ==
  ASSUME IInv, NEW c \in Call, Withdraw(c) \/ ToolReturns(c) PROVE IInv' /\ Respects(c)
<1>1. PICK o \in {"SUCCEEDED", "FAILED", "REJECTED", "OUTCOME_UNKNOWN"} : Ends(c, o)
  BY DEF Withdraw, ToolReturns
<1>2. pc[c] \in Owning /\ UNCHANGED <<dbNow, tables, memory, world>>
  BY DEF Withdraw, ToolReturns, At, Owning
<1> QED BY <1>1, <1>2, EndsStep DEF Final

\* A heartbeat changes the lease.
LEMMA HeartbeatStep ==
  ASSUME IInv, NEW c \in Call, Heartbeat(c) PROVE IInv' /\ Respects(c)
<1>1. /\ pc[c] \in Owning
      /\ UNCHANGED <<dbNow, execution, status, boundTo, ownedBy, inflight, records, pc, host, req,
                     outcome, answer, tool, effects>>
  BY DEF Heartbeat, Owning, memory, world
<1>2. leaseLost' \in [Call -> BOOLEAN]
  BY DEF Heartbeat, IInv, TypeOK
<1>3. ownerExpiresAt' \in [Key -> Nat]
  BY ConstantsAssumption DEF Heartbeat, IInv, TypeOK
<1>4. TypeOK'
  BY <1>1, <1>2, <1>3 DEF IInv, TypeOK
<1>5. CallOK(c)'
  BY <1>1 DEF IInv, CallOK, KeyOf, IdOf
<1> QED BY <1>1, <1>4, <1>5, CallMoves

\* Who leaves takes the record of its identifier along.
LEMMA LeaveStep ==
  ASSUME IInv, NEW c \in Call, Leave(c) PROVE IInv' /\ Respects(c)
<1>1. /\ pc[c] = "leaving" /\ pc' = [pc EXCEPT ![c] = "done"]
      /\ records' = [records EXCEPT ![host[c]] = @ \ {IdOf(c)}]
      /\ UNCHANGED <<dbNow, execution, status, boundTo, ownedBy, ownerExpiresAt, inflight, host,
                     req, outcome, leaseLost, answer, tool, effects>>
  BY DEF Leave, At, GoTo, tables, world
<1>2. /\ leaseLost' \in [Call -> BOOLEAN] /\ ownerExpiresAt' \in [Key -> Nat]
      /\ inflight' \in [Host -> [Key -> Call \cup {None}]]
      /\ records' \in [Host -> SUBSET Execution]
  BY <1>1 DEF IInv, TypeOK
<1>3. /\ outcome' = [outcome EXCEPT ![c] = outcome[c]] /\ outcome[c] \in Final \cup {None}
      /\ answer' = [answer EXCEPT ![c] = answer[c]] /\ answer[c] \in Answer \cup {None}
  BY <1>1 DEF IInv, TypeOK
<1>4. answer[c] \in Final \ {"OUTCOME_UNKNOWN"} => status[KeyOf(c)] = answer[c]
  BY DEF IInv, CallOK
<1>5. PICK place \in {"done"} : pc' = [pc EXCEPT ![c] = place]
  BY <1>1
<1>6. place \in PC \ {"idle", "ended", "acquired", "queued"} /\ place \notin Owning
  BY DEF PC, Owning
<1> QED BY <1>1, <1>2, <1>3, <1>4, <1>5, <1>6, GoesOn

\* Of a crash nothing is left but the tables.
LEMMA CrashStep ==
  ASSUME IInv, NEW h \in Host, Crash(h) PROVE IInv'
<1>1. /\ pc' = [c \in Call |-> IF host[c] = h /\ pc[c] # "done" THEN "dead" ELSE pc[c]]
      /\ inflight' = [inflight EXCEPT ![h] = [k \in Key |-> None]]
      /\ records' = [records EXCEPT ![h] = {}]
      /\ UNCHANGED <<dbNow, execution, status, boundTo, ownedBy, ownerExpiresAt, host, req,
                     outcome, leaseLost, answer, tool, effects>>
  BY DEF Crash, tables, world
<1>2. TypeOK'
  BY <1>1 DEF IInv, TypeOK, PC
<1>3. \A c \in Call : CallOK(c)'
  BY <1>1, ConstantsAssumption DEF IInv, CallOK, Owning, KeyOf, IdOf
<1>4. \A k \in Key : KeyOK(k)'
  BY <1>1 DEF IInv, KeyOK
<1>5. OneOwner' /\ OneKey'
  BY <1>1 DEF IInv, OneOwner, OneKey, Owning, KeyOf
<1> QED BY <1>2, <1>3, <1>4, <1>5 DEF IInv

------------------------------------------------------------------------------
(* Steps that write the tables, or to the tool.                            *)

\* What is left to show of a step that writes: its call, and the keys.
LEMMA KeysMove ==
  ASSUME IInv, NEW c \in Call, Respects(c), TypeOK', CallOK(c)', \A k \in Key : KeyOK(k)', OneKey',
         pc'[c] \in Owning =>
           /\ pc[c] # "idle" /\ req'[c] = req[c]
           /\ pc[c] \in Owning \/ status[KeyOf(c)] = "ABSENT"
  PROVE  IInv'
<1>1. \A d \in Call : CallOK(d)'
  BY OthersStand
<1>2. OneOwner'
  BY OneOwnerStands
<1> QED BY <1>1, <1>2 DEF IInv

\* A call is answered from what is recorded, or that nothing is known.
LEMMA AnswersStep ==
  ASSUME IInv, NEW c \in Call, pc[c] # "idle", NEW a \in Answer, Answers(c, a),
         a \in Final \ {"OUTCOME_UNKNOWN"} => status[KeyOf(c)] = a,
         UNCHANGED <<dbNow, tables, records, world>>,
         inflight' \in [Host -> [Key -> Call \cup {None}]]
  PROVE  IInv' /\ Respects(c)
<1>1. /\ answer' = [answer EXCEPT ![c] = a]
      /\ UNCHANGED <<dbNow, execution, status, boundTo, ownedBy, ownerExpiresAt, records, host,
                     req, outcome, leaseLost, tool, effects>>
  BY DEF Answers, tables, world
<1>2. /\ leaseLost' \in [Call -> BOOLEAN] /\ ownerExpiresAt' \in [Key -> Nat]
      /\ records' \in [Host -> SUBSET Execution]
      /\ outcome' = [outcome EXCEPT ![c] = outcome[c]] /\ outcome[c] \in Final \cup {None}
  BY <1>1 DEF IInv, TypeOK
<1>3. PICK place \in {"leaving"} : pc' = [pc EXCEPT ![c] = place]
  BY DEF Answers
<1>4. place \in PC \ {"idle", "ended", "acquired", "queued"} /\ place \notin Owning
  BY DEF PC, Owning
<1> QED BY <1>1, <1>2, <1>3, <1>4, GoesOn

\* Whoever inserts the rows of a key and of an execution that have none owns the key.
LEMMA ClaimStep ==
  ASSUME IInv, NEW c \in Call, pc[c] = "acquire", Claim(c), GoTo(c, "acquired") \/ Answers(c, "ERROR"),
         UNCHANGED <<dbNow, memory, world>>
  PROVE  IInv' /\ Respects(c)
<1> PICK k \in Key, e \in Execution : k = KeyOf(c) /\ e = IdOf(c)
  BY Started
<1>1. /\ execution[e] = "ABSENT" /\ status[k] = "ABSENT"
      /\ execution' = [execution EXCEPT ![e] = "RUNNING"]
      /\ status' = [status EXCEPT ![k] = "IN_PROGRESS"]
      /\ boundTo' = [boundTo EXCEPT ![k] = req[c].binding]
      /\ ownedBy' = [ownedBy EXCEPT ![k] = e]
      /\ ownerExpiresAt' = [ownerExpiresAt EXCEPT ![k] = dbNow + Lease]
      /\ UNCHANGED <<dbNow, inflight, records, host, req, outcome, leaseLost, tool, effects>>
      /\ \/ pc' = [pc EXCEPT ![c] = "acquired"] /\ answer' = answer
         \/ pc' = [pc EXCEPT ![c] = "leaving"] /\ answer' = [answer EXCEPT ![c] = "ERROR"]
  BY DEF Claim, GoTo, Answers, memory, world
<1>2. TypeOK'
  <2>1. req[c].binding \in Binding /\ dbNow + Lease \in Nat
    BY Started, ConstantsAssumption DEF Request, IInv, TypeOK
  <2> QED BY <1>1, <2>1 DEF IInv, TypeOK, PC, Answer
<1>3. Respects(c)
  BY <1>1 DEF Respects, IInv, TypeOK, Final
<1>4. KeyOK(k) /\ ownedBy[k] = None /\ tool[k] = "none"
  BY <1>1 DEF IInv, KeyOK
<1>5. CallOK(c)'
  <2>1. CallOK(c)
    BY DEF IInv
  <2>2. answer[c] \notin Final \ {"OUTCOME_UNKNOWN"}
    BY <1>1, <2>1 DEF CallOK, Final
  <2>3. KeyOf(c)' = k /\ IdOf(c)' = e
    BY <1>1 DEF KeyOf, IdOf
  <2>4. status'[k] = "IN_PROGRESS" /\ ownedBy'[k] = e /\ tool'[k] = "none"
    BY <1>1, <1>4 DEF IInv, TypeOK
  <2>5. /\ pc'[c] \in {"acquired", "leaving"} /\ req'[c] = req[c] /\ host'[c] = host[c]
        /\ answer'[c] \in {answer[c], "ERROR"}
    BY <1>1 DEF IInv, TypeOK
  <2>6. "ERROR" \notin Final
    BY DEF Final
  <2> QED BY <2>1, <2>2, <2>3, <2>4, <2>5, <2>6 DEF CallOK
<1>6. \A l \in Key : ownedBy[l] # e
  <2> TAKE l \in Key
  <2>1. KeyOK(l)
    BY DEF IInv
  <2>2. "ABSENT" # "RUNNING" /\ "ABSENT" \notin Final
    BY DEF Final
  <2> QED BY <1>1, <2>1, <2>2, ConstantsAssumption DEF KeyOK
<1>7. \A l \in Key : KeyOK(l)'
  <2> TAKE l \in Key
  <2>1. CASE l = k
    BY <1>1, <1>4, <2>1, ConstantsAssumption DEF KeyOK, IInv, TypeOK
  <2>2. CASE l # k
    <3>1. /\ status'[l] = status[l] /\ ownedBy'[l] = ownedBy[l]
          /\ tool'[l] = tool[l] /\ effects'[l] = effects[l]
          /\ \A x \in Execution \ {e} : execution'[x] = execution[x]
      BY <1>1, <2>2 DEF IInv, TypeOK
    <3> QED BY <1>6, <3>1 DEF IInv, KeyOK
  <2> QED BY <2>1, <2>2
<1>8. OneKey'
  <2>1. ownedBy'[k] = e /\ \A l \in Key \ {k} : ownedBy'[l] = ownedBy[l]
    BY <1>1 DEF IInv, TypeOK
  <2>2. \A x \in Execution \ {e} : execution'[x] = execution[x]
    BY <1>1 DEF IInv, TypeOK
  <2>3. \A x \in Execution : execution[x] # "ABSENT" => \E l \in Key \ {k} : ownedBy[l] = x
    BY <1>4, ConstantsAssumption DEF IInv, OneKey
  <2>4. \A x \in Execution : execution'[x] # "ABSENT" => \E l \in Key : ownedBy'[l] = x
    BY <2>1, <2>2, <2>3
  <2> QED BY <1>6, <2>1, <2>4 DEF IInv, OneKey
<1>9. pc[c] # "idle" /\ req'[c] = req[c]
  BY <1>1
<1> QED BY <1>1, <1>2, <1>3, <1>5, <1>7, <1>8, <1>9, KeysMove

\* A verdict is recorded in both tables: by the owner, or an unknown one by anybody.
LEMMA SettleStep ==
  ASSUME IInv, NEW c \in Call, pc[c] # "idle", NEW k \in Key, k = KeyOf(c),
         status[k] = "IN_PROGRESS", NEW v \in Final, v = "OUTCOME_UNKNOWN" \/ pc[c] \in Owning,
         execution' = [execution EXCEPT ![ownedBy[k]] = v], status' = [status EXCEPT ![k] = v],
         NEW a \in {v, "ERROR"}, Answers(c, a),
         UNCHANGED <<dbNow, boundTo, ownedBy, ownerExpiresAt, records, world>>,
         inflight' \in [Host -> [Key -> Call \cup {None}]]
  PROVE  IInv' /\ Respects(c)
<1>1. /\ pc' = [pc EXCEPT ![c] = "leaving"] /\ answer' = [answer EXCEPT ![c] = a]
      /\ UNCHANGED <<host, req, outcome, leaseLost, tool, effects>>
  BY DEF Answers, world
<1>2. PICK e \in Execution : e = ownedBy[k] /\ execution[e] = "RUNNING"
  BY DEF IInv, KeyOK
<1>3. /\ execution'[e] = v /\ \A x \in Execution \ {e} : execution'[x] = execution[x]
      /\ status'[k] = v /\ \A l \in Key \ {k} : status'[l] = status[l]
  BY <1>2 DEF IInv, TypeOK
<1>4. TypeOK'
  BY <1>1, <1>2 DEF IInv, TypeOK, PC, Answer
<1>5. Respects(c)
  BY <1>1, <1>3 DEF Respects, IInv, TypeOK, Final
<1>6. CallOK(c)'
  <2>1. pc'[c] = "leaving" /\ req'[c] = req[c] /\ host'[c] = host[c] /\ answer'[c] = a
    BY <1>1 DEF IInv, TypeOK
  <2>2. KeyOf(c)' = k
    BY <1>1 DEF KeyOf
  <2> QED BY <1>3, <2>1, <2>2 DEF IInv, CallOK, Owning, Final
<1>7. \A l \in Key : KeyOK(l)'
  <2> TAKE l \in Key
  <2>1. KeyOK(l) /\ e # None /\ (l # k => ownedBy[l] # e)
    BY <1>2, ConstantsAssumption DEF IInv, OneKey
  <2> QED BY <1>1, <1>2, <1>3, <2>1 DEF KeyOK, Final
<1>8. OneKey'
  BY <1>2, <1>3 DEF IInv, OneKey
<1>9. pc'[c] \notin Owning
  BY <1>1 DEF IInv, TypeOK, Owning
<1> QED BY <1>4, <1>5, <1>6, <1>7, <1>8, <1>9, KeysMove

\* The acquisition claims, gives an expired owner up, or only reads.
LEMMA AcquireStep ==
  ASSUME IInv, NEW c \in Call, Acquire(c) PROVE IInv' /\ Respects(c)
<1> PICK k \in Key : k = KeyOf(c) /\ pc[c] = "acquire" /\ pc[c] # "idle"
  BY Started DEF Acquire, At
<1>1. UNCHANGED <<dbNow, memory, world>>
  BY DEF Acquire
<1>2. inflight' \in [Host -> [Key -> Call \cup {None}]] /\ UNCHANGED records
  BY <1>1 DEF memory, IInv, TypeOK
<1>3. CASE Claim(c) /\ (GoTo(c, "acquired") \/ Answers(c, "ERROR"))
  BY <1>1, <1>3, ClaimStep
<1>4. CASE status[k] = "IN_PROGRESS" /\ AbandonOwner(c)
  <2>1. PICK v \in {"OUTCOME_UNKNOWN"} : v \in Final
    BY DEF Final
  <2>2. /\ execution' = [execution EXCEPT ![ownedBy[k]] = v] /\ status' = [status EXCEPT ![k] = v]
        /\ UNCHANGED <<boundTo, ownedBy, ownerExpiresAt>> /\ Answers(c, v)
    <3>1. execution[ownedBy[k]] = "RUNNING" /\ ownedBy[k] \in Execution
      BY <1>4 DEF IInv, KeyOK
    <3> QED BY <1>4, <3>1 DEF AbandonOwner, IInv, TypeOK
  <2> QED BY <1>1, <1>2, <1>4, <2>1, <2>2, SettleStep
<1>5. CASE \E a \in {"CONFLICT", "ERROR", "OUTCOME_UNKNOWN", status[k]} :
             Answers(c, a) /\ a \in Answer /\ UNCHANGED tables
  <2>1. PICK a \in {"CONFLICT", "ERROR", "OUTCOME_UNKNOWN", status[k]} :
          Answers(c, a) /\ a \in Answer /\ UNCHANGED tables
    BY <1>5
  <2>2. a \in Final \ {"OUTCOME_UNKNOWN"} => status[KeyOf(c)] = a
    BY <2>1 DEF Final
  <2> QED BY <1>1, <1>2, <2>1, <2>2, AnswersStep
<1>6. {"CONFLICT", "ERROR", "OUTCOME_UNKNOWN"} \subseteq Answer
      /\ (status[k] \in Final => status[k] \in Answer)
  BY DEF Answer, Final
<1> QED BY <1>3, <1>4, <1>5, <1>6 DEF Acquire

\* The owner records its verdict, or answers what is recorded.
LEMMA FinalizeStep ==
  ASSUME IInv, NEW c \in Call, Finalize(c) PROVE IInv' /\ Respects(c)
<1> PICK k \in Key : k = KeyOf(c) /\ pc[c] = "ended" /\ pc[c] # "idle"
  BY Started DEF Finalize, At
<1>1. /\ UNCHANGED <<dbNow, boundTo, ownedBy, ownerExpiresAt, records, world>>
      /\ inflight' = [inflight EXCEPT ![host[c]][k] = None]
  BY DEF Finalize
<1>2. inflight' \in [Host -> [Key -> Call \cup {None}]]
  BY <1>1, Started DEF IInv, TypeOK
<1>3. /\ ownedBy[k] = IdOf(c) /\ status[k] # "ABSENT" /\ pc[c] \in Owning
      /\ outcome[c] \in Final
  BY DEF IInv, CallOK, TypeOK, Owning
<1>4. CASE Finalizable(c) /\ \E v \in {outcome[c], "OUTCOME_UNKNOWN"} : \E a \in {v, "ERROR"} :
             /\ execution' = [execution EXCEPT ![IdOf(c)] = v] /\ status' = [status EXCEPT ![k] = v]
             /\ Answers(c, a)
  <2> PICK v \in {outcome[c], "OUTCOME_UNKNOWN"} : \E a \in {v, "ERROR"} :
             /\ execution' = [execution EXCEPT ![IdOf(c)] = v] /\ status' = [status EXCEPT ![k] = v]
             /\ Answers(c, a)
    BY <1>4
  <2>1. PICK a \in {v, "ERROR"} :
             /\ execution' = [execution EXCEPT ![IdOf(c)] = v] /\ status' = [status EXCEPT ![k] = v]
             /\ Answers(c, a)
    OBVIOUS
  <2>2. v \in Final /\ status[k] = "IN_PROGRESS"
    BY <1>3, <1>4 DEF Finalizable, Final
  <2> QED BY <1>1, <1>2, <1>3, <2>1, <2>2, SettleStep
<1>5. CASE \E a \in {"ERROR", execution[IdOf(c)]} :
             Answers(c, a) /\ a \in Answer /\ UNCHANGED <<execution, status>>
  <2>1. PICK a \in {"ERROR", execution[IdOf(c)]} :
          Answers(c, a) /\ a \in Answer /\ UNCHANGED <<execution, status>>
    BY <1>5
  <2>2. a \in Final \ {"OUTCOME_UNKNOWN"} => status[KeyOf(c)] = a
    BY <1>3, <2>1 DEF IInv, KeyOK, Final
  <2>3. UNCHANGED tables
    BY <1>1, <2>1 DEF tables
  <2> QED BY <1>1, <1>2, <2>1, <2>2, <2>3, AnswersStep
<1>6. "ERROR" \in Answer /\ (execution[IdOf(c)] \in Final => execution[IdOf(c)] \in Answer)
  BY DEF Answer
<1> QED BY <1>4, <1>5, <1>6 DEF Finalize

\* Only the owner of a key sends its side effect, once.
LEMMA DispatchStep ==
  ASSUME IInv, NEW c \in Call, Dispatch(c) PROVE IInv' /\ Respects(c)
<1> PICK k \in Key : k = KeyOf(c) /\ pc[c] = "queued"
  BY Started DEF Dispatch, At
<1>1. /\ pc' = [pc EXCEPT ![c] = "dispatched"] /\ tool' = [tool EXCEPT ![k] = "sent"]
      /\ UNCHANGED <<dbNow, execution, status, boundTo, ownedBy, ownerExpiresAt, inflight,
                     records, host, req, outcome, leaseLost, answer, effects>>
  BY DEF Dispatch, GoTo, tables, memory
<1>2. tool[k] = "none" /\ status[k] # "ABSENT" /\ pc[c] \in Owning /\ CallOK(c)
  BY DEF IInv, CallOK, Owning
<1>3. TypeOK'
  BY <1>1 DEF IInv, TypeOK, PC
<1>4. Respects(c)
  BY <1>1, <1>2 DEF Respects, IInv, TypeOK
<1>5. CallOK(c)'
  BY <1>1, <1>2 DEF CallOK, IInv, TypeOK, Owning, KeyOf, IdOf
<1>6. \A l \in Key : KeyOK(l)'
  BY <1>1, <1>2 DEF IInv, KeyOK, TypeOK
<1>7. OneKey'
  BY <1>1 DEF IInv, OneKey
<1> QED BY <1>1, <1>2, <1>3, <1>4, <1>5, <1>6, <1>7, KeysMove

\* The service acts on what it was sent; time passes.
LEMMA WorldStep ==
  ASSUME IInv, Tick \/ \E k \in Key : Effect(k) \/ Refuse(k)
  PROVE  IInv' /\ Respects(None)
<1>1. UNCHANGED <<execution, status, boundTo, ownedBy, ownerExpiresAt, inflight, records, pc,
                  host, req, outcome, leaseLost, answer>>
  BY DEF Tick, Effect, Refuse, tables, memory, calls
<1>2. \A k \in Key :
        \/ tool'[k] = tool[k] /\ effects'[k] = effects[k]
        \/ tool[k] = "sent" /\ tool'[k] = "done" /\ effects'[k] = effects[k] + 1
        \/ tool[k] = "sent" /\ tool'[k] = "refused" /\ effects'[k] = effects[k]
  BY DEF Tick, Effect, Refuse, world, IInv, TypeOK
<1>3. TypeOK'
  <2>1. dbNow' \in 0..MaxTime
    BY ConstantsAssumption DEF Tick, Effect, Refuse, IInv, TypeOK
  <2>2. tool \in [Key -> {"none", "sent", "refused", "done"}] /\ effects \in [Key -> Nat]
    BY DEF IInv, TypeOK
  <2>3. tool' \in [Key -> {"none", "sent", "refused", "done"}]
    BY <2>2 DEF Tick, Effect, Refuse, world
  <2>4. effects' \in [Key -> Nat]
    BY <2>2 DEF Tick, Effect, Refuse, world
  <2> QED BY <1>1, <2>1, <2>3, <2>4 DEF IInv, TypeOK
<1>4. Respects(None)
  BY <1>1, <1>2, ConstantsAssumption DEF Respects
<1>5. \A c \in Call : CallOK(c)'
  BY <1>4, OthersStand, ConstantsAssumption
<1>6. \A k \in Key : KeyOK(k)'
  <2> TAKE k \in Key
  <2>1. KeyOK(k) /\ effects[k] \in Nat
    BY DEF IInv, TypeOK
  <2> QED BY <1>1, <1>2, <2>1 DEF KeyOK
<1>7. OneOwner' /\ OneKey'
  BY <1>1 DEF IInv, OneOwner, OneKey, KeyOf
<1> QED BY <1>3, <1>4, <1>5, <1>6, <1>7 DEF IInv

------------------------------------------------------------------------------
(* Whatever the calls share.                                               *)

\* Nothing is claimed and nobody has started.
LEMMA InitIInv == Init => IInv
<1> SUFFICES ASSUME Init PROVE IInv
  OBVIOUS
<1>1. TypeOK
  BY ConstantsAssumption DEF Init, TypeOK, PC
<1>2. \A c \in Call : CallOK(c)
  BY NoneAssumption DEF Init, CallOK, Owning, Answer
<1>3. \A k \in Key : KeyOK(k)
  BY DEF Init, KeyOK
<1>4. OneOwner /\ OneKey
  BY DEF Init, OneOwner, OneKey, Owning
<1> QED BY <1>1, <1>2, <1>3, <1>4 DEF IInv

\* Every step of a call preserves the invariant and respects the other calls.
LEMMA CallStep ==
  ASSUME IInv, NEW c \in Call, Start(c) \/ Step(c) \/ Heartbeat(c) PROVE IInv' /\ Respects(c)
BY StartStep, CoordinateStep, FollowStep, AcquireStep, RunOwnerStep, OutcomeStep, DispatchStep,
   FinalizeStep, LeaveStep, HeartbeatStep DEF Step

\* The invariant is inductive.
LEMMA NextIInv == IInv /\ [Next]_vars => IInv'
<1> SUFFICES ASSUME IInv, [Next]_vars PROVE IInv'
  OBVIOUS
<1>1. CASE \E c \in Call : Start(c) \/ Step(c) \/ Heartbeat(c)
  BY <1>1, CallStep
<1>2. CASE Tick \/ \E k \in Key : Effect(k) \/ Refuse(k)
  BY <1>2, WorldStep
<1>3. CASE \E h \in Host : Crash(h)
  BY <1>3, CrashStep
<1>4. CASE UNCHANGED vars
  <2>1. UNCHANGED <<dbNow, execution, status, boundTo, ownedBy, ownerExpiresAt, inflight, records,
                    pc, host, req, outcome, leaseLost, answer, tool, effects>>
    BY <1>4 DEF vars, tables, memory, calls, world
  <2>2. TypeOK'
    BY <2>1 DEF IInv, TypeOK
  <2>3. \A c \in Call : CallOK(c)'
    BY <2>1 DEF IInv, CallOK, KeyOf, IdOf
  <2>4. \A k \in Key : KeyOK(k)'
    BY <2>1 DEF IInv, KeyOK
  <2>5. OneOwner' /\ OneKey'
    BY <2>1 DEF IInv, OneOwner, OneKey, KeyOf
  <2> QED BY <2>2, <2>3, <2>4, <2>5 DEF IInv
<1> QED BY <1>1, <1>2, <1>3, <1>4 DEF Next

\* The inductive invariant holds in every reachable state.
THEOREM Invariance == Spec => []IInv
BY InitIInv, NextIInv, PTL DEF Spec

\* Every variable keeps its type.
THEOREM TypeCorrect == Spec => []TypeOK
<1>1. IInv => TypeOK
  BY DEF IInv
<1> QED BY <1>1, Invariance, PTL

\* The tables agree and the tool acts once, whatever identifiers and keys the calls share.
THEOREM TablesAlwaysAgree == Spec => []TablesAgree
<1>1. IInv => TablesAgree
  <2> SUFFICES ASSUME IInv PROVE TablesAgree
    OBVIOUS
  <2>1. \A k \in Key : KeyOK(k)
    BY DEF IInv
  <2>2. \A e \in Execution : execution[e] # "ABSENT" =>
          \E k \in Key : ownedBy[k] = e /\ \A l \in Key : ownedBy[l] = e => l = k
    BY ConstantsAssumption DEF IInv, OneKey
  <2> QED BY <2>1, <2>2 DEF KeyOK, TablesAgree
<1> QED BY <1>1, Invariance, PTL

\* No call is answered with a verdict that is not the recorded one.
THEOREM AnswersAreRecorded == Spec => []AnswersMatchVerdict
<1>1. IInv => AnswersMatchVerdict
  BY DEF IInv, CallOK, AnswersMatchVerdict
<1> QED BY <1>1, Invariance, PTL

------------------------------------------------------------------------------
(* Calls with identifiers of their own.                                    *)

(***************************************************************************)
(* What is left to show of a step: what its call does, that it leaves the  *)
(* records of owners alone, and that an effect is under way only while its *)
(* outcome is open.                                                        *)
(***************************************************************************)
LEMMA FreshMoves ==
  ASSUME IInv, FreshInv, NEW c, Respects(c),
         c \in Call /\ pc'[c] \in {"queued", "dispatched"} => IdOf(c)' \in records'[host'[c]],
         \A d \in Call \ {c} : pc[d] \in {"queued", "dispatched"} /\ IdOf(d) \in records[host[d]] =>
           IdOf(d) \in records'[host[d]],
         c \in Call => OutcomeOK(c)',
         \A k \in Key : \/ tool'[k] = tool[k] \/ tool[k] = "sent"
                        \/ c \in Call /\ pc[c] \in Owning /\ k = KeyOf(c),
         \A k \in Key : tool'[k] = "sent" => status'[k] \in {"IN_PROGRESS", "OUTCOME_UNKNOWN"}
  PROVE  FreshInv'
<1>1. OwnerRecordKept'
  <2> SUFFICES ASSUME NEW d \in Call \ {c}, pc'[d] \in {"queued", "dispatched"}
               PROVE  IdOf(d)' \in records'[host'[d]]
    BY DEF OwnerRecordKept, HasRecord
  <2>1. pc'[d] = pc[d] /\ host'[d] = host[d] /\ req'[d] = req[d]
    BY DEF Respects
  <2> QED BY <2>1 DEF FreshInv, OwnerRecordKept, HasRecord, IdOf
<1>2. \A d \in Call : OutcomeOK(d)'
  <2> SUFFICES ASSUME NEW d \in Call \ {c}, pc'[d] = "ended" PROVE OutcomeOK(d)'
    BY DEF OutcomeOK
  <2>1. pc[d] = "ended" /\ outcome'[d] = outcome[d] /\ req'[d] = req[d] /\ OutcomeOK(d)
    BY DEF Respects, FreshInv
  <2> PICK k \in Key : k = KeyOf(d)
    BY <2>1, Started
  <2>2. ~(c \in Call /\ pc[c] \in Owning /\ k = KeyOf(c))
    BY <2>1 DEF IInv, OneOwner, Owning
  <2>3. KeyOf(d)' = k
    BY <2>1 DEF KeyOf
  <2>4. tool'[k] = tool[k] \/ tool[k] = "sent"
    BY <2>2
  <2> QED BY <2>1, <2>3, <2>4 DEF OutcomeOK
<1> QED BY <1>1, <1>2 DEF FreshInv

\* A call that is not in the tool's hands leaves the others' records alone if its own
\* identifier is nobody else's.
LEMMA CallFresh ==
  ASSUME FreshIds, IInv, FreshInv, NEW c \in Call, Start(c) \/ Step(c) \/ Heartbeat(c)
  PROVE  FreshInv'
<1>1. Respects(c)
  BY CallStep
<1>2. CASE Start(c) \/ Coordinate(c) \/ Follow(c) \/ Acquire(c) \/ Heartbeat(c)
  <2>1. UNCHANGED <<records, tool>>
    BY <1>2 DEF Start, Coordinate, Follow, Acquire, Heartbeat, memory, world
  <2>2. \/ pc'[c] \in {"coordinate", "acquire", "following", "leaving", "acquired"}
        \/ pc'[c] = pc[c] /\ UNCHANGED <<req, host, outcome>>
    BY <1>2 DEF Start, Coordinate, Follow, Acquire, Heartbeat, GoTo, Answers, AbandonOwner,
                IInv, TypeOK
  <2>3. \A k \in Key : status'[k] \in {status[k], "IN_PROGRESS", "OUTCOME_UNKNOWN"}
    BY <1>2 DEF Start, Coordinate, Follow, Acquire, Heartbeat, AbandonOwner, Claim, tables,
                IInv, TypeOK
  <2>4. pc'[c] \in {"queued", "dispatched"} => IdOf(c)' \in records'[host'[c]]
    BY <2>1, <2>2 DEF FreshInv, OwnerRecordKept, HasRecord, IdOf
  <2>5. OutcomeOK(c)'
    BY <2>1, <2>2 DEF FreshInv, OutcomeOK, KeyOf
  <2>6. \A k \in Key : tool'[k] = "sent" => status'[k] \in {"IN_PROGRESS", "OUTCOME_UNKNOWN"}
    BY <2>1, <2>3 DEF FreshInv
  <2> QED BY <1>1, <2>1, <2>4, <2>5, <2>6, FreshMoves
<1>3. CASE RunOwner(c)
  <2>1. /\ pc[c] = "acquired" /\ pc'[c] = "queued"
        /\ records' = [records EXCEPT ![host[c]] = @ \cup {IdOf(c)}]
        /\ UNCHANGED <<status, tool, req, host>>
    BY <1>3 DEF RunOwner, At, GoTo, tables, world, IInv, TypeOK
  <2>2. host[c] \in Host
    BY <2>1, Started
  <2>3. IdOf(c)' \in records'[host'[c]] /\ \A h \in Host : records[h] \subseteq records'[h]
    BY <2>1, <2>2 DEF IInv, TypeOK, IdOf
  <2>4. \A d \in Call : pc[d] \in {"queued", "dispatched"} => host[d] \in Host
    BY Started
  <2> QED BY <1>1, <2>1, <2>3, <2>4, FreshMoves DEF FreshInv, OutcomeOK
<1>4. CASE Withdraw(c) \/ ToolReturns(c)
  <2>1. /\ UNCHANGED <<records, tool, status, req, host>> /\ pc'[c] = "ended"
    BY <1>4 DEF Withdraw, ToolReturns, Ends, memory, tables, world, IInv, TypeOK
  <2>2. OutcomeOK(c)'
    <3>1. pc[c] = "queued" => tool[KeyOf(c)] = "none"
      BY DEF IInv, CallOK
    <3>2. pc[c] = "dispatched" => HasRecord(c)
      BY DEF FreshInv, OwnerRecordKept
    <3>3. CASE Withdraw(c)
      BY <2>1, <3>1, <3>3 DEF Withdraw, At, Ends, OutcomeOK, KeyOf, IInv, TypeOK
    <3>4. CASE ToolReturns(c)
      BY <2>1, <3>2, <3>4 DEF ToolReturns, At, Ends, OutcomeOK, KeyOf, IInv, TypeOK
    <3> QED BY <1>4, <3>3, <3>4
  <2> QED BY <1>1, <2>1, <2>2, FreshMoves DEF FreshInv
<1>5. CASE Dispatch(c)
  <2> PICK k \in Key : k = KeyOf(c) /\ pc[c] = "queued"
    BY <1>5, Started DEF Dispatch, At
  <2>1. /\ HasRecord(c) /\ pc'[c] = "dispatched" /\ tool' = [tool EXCEPT ![k] = "sent"]
        /\ UNCHANGED <<records, status, req, host>>
    BY <1>5 DEF Dispatch, GoTo, tables, memory, IInv, TypeOK
  <2>2. pc[c] \in Owning /\ status[k] \in {"IN_PROGRESS", "OUTCOME_UNKNOWN"}
    BY DEF IInv, CallOK, Owning
  <2>3. /\ \A l \in Key \ {k} : tool'[l] = tool[l]
        /\ \A l \in Key : tool'[l] = "sent" => status'[l] \in {"IN_PROGRESS", "OUTCOME_UNKNOWN"}
    BY <2>1, <2>2 DEF FreshInv, IInv, TypeOK
  <2>4. IdOf(c)' \in records'[host'[c]] /\ OutcomeOK(c)'
    BY <2>1 DEF HasRecord, IdOf, OutcomeOK
  <2> QED BY <1>1, <2>1, <2>2, <2>3, <2>4, FreshMoves
<1>6. CASE Finalize(c)
  <2> PICK k \in Key : k = KeyOf(c) /\ pc[c] = "ended"
    BY <1>6, Started DEF Finalize, At
  <2>1. UNCHANGED <<records, tool>> /\ pc'[c] = "leaving"
    BY <1>6 DEF Finalize, Answers, world, IInv, TypeOK
  <2>2. tool[k] = "sent" => outcome[c] = "OUTCOME_UNKNOWN"
    BY DEF FreshInv, OutcomeOK, IInv, CallOK, TypeOK, Final
  <2>3. \/ status' = status
        \/ \E v \in {outcome[c], "OUTCOME_UNKNOWN"} : status' = [status EXCEPT ![k] = v]
    BY <1>6 DEF Finalize
  <2>4. \A l \in Key : tool'[l] = "sent" => status'[l] \in {"IN_PROGRESS", "OUTCOME_UNKNOWN"}
    BY <2>1, <2>2, <2>3 DEF FreshInv, IInv, TypeOK
  <2> QED BY <1>1, <2>1, <2>4, FreshMoves DEF OutcomeOK
<1>7. CASE Leave(c)
  <2>1. /\ pc[c] = "leaving" /\ pc'[c] = "done" /\ UNCHANGED <<tool, status>>
        /\ records' = [records EXCEPT ![host[c]] = @ \ {IdOf(c)}]
    BY <1>7 DEF Leave, At, GoTo, tables, world, IInv, TypeOK
  <2>2. ASSUME NEW d \in Call \ {c}, pc[d] \in {"queued", "dispatched"}, IdOf(d) \in records[host[d]]
        PROVE  IdOf(d) \in records'[host[d]]
    <3>1. req[c] \in RequestsOf[c] /\ req[d] \in RequestsOf[d] /\ host[d] \in Host
      BY <2>1, <2>2 DEF IInv, CallOK
    <3>2. IdOf(d) # IdOf(c)
      BY <3>1 DEF FreshIds, IdOf
    <3> QED BY <2>1, <2>2, <3>1, <3>2 DEF IInv, TypeOK
  <2>3. \A k \in Key : tool'[k] = "sent" => status'[k] \in {"IN_PROGRESS", "OUTCOME_UNKNOWN"}
    BY <2>1 DEF FreshInv
  <2>4. OutcomeOK(c)'
    BY <2>1 DEF OutcomeOK
  <2> QED BY <1>1, <2>1, <2>2, <2>3, <2>4, FreshMoves
<1> QED BY <1>2, <1>3, <1>4, <1>5, <1>6, <1>7 DEF Step

\* Nothing is under way.
LEMMA InitFresh == Init => FreshInv
BY DEF Init, FreshInv, OwnerRecordKept, OutcomeOK

\* The invariant of calls with identifiers of their own is inductive.
LEMMA NextFresh == FreshIds => (IInv /\ FreshInv /\ [Next]_vars => FreshInv')
<1> SUFFICES ASSUME FreshIds, IInv, FreshInv, [Next]_vars PROVE FreshInv'
  OBVIOUS
<1>1. CASE \E c \in Call : Start(c) \/ Step(c) \/ Heartbeat(c)
  BY <1>1, CallFresh
<1>2. CASE Tick \/ \E k \in Key : Effect(k) \/ Refuse(k)
  <2>1. Respects(None)
    BY <1>2, WorldStep
  <2>2. UNCHANGED <<records, status>>
    BY <1>2 DEF Tick, Effect, Refuse, memory, tables
  <2>3. \A k \in Key : tool'[k] = tool[k] \/ (tool[k] = "sent" /\ tool'[k] # "sent")
    BY <1>2 DEF Tick, Effect, Refuse, world, IInv, TypeOK
  <2>4. \A k \in Key : tool'[k] = "sent" => status'[k] \in {"IN_PROGRESS", "OUTCOME_UNKNOWN"}
    BY <2>2, <2>3 DEF FreshInv
  <2> QED BY <2>1, <2>2, <2>3, <2>4, FreshMoves, ConstantsAssumption
<1>3. CASE \E h \in Host : Crash(h)
  <2> PICK h \in Host : Crash(h)
    BY <1>3
  <2>1. /\ pc' = [c \in Call |-> IF host[c] = h /\ pc[c] # "done" THEN "dead" ELSE pc[c]]
        /\ records' = [records EXCEPT ![h] = {}]
        /\ UNCHANGED <<status, tool, host, req, outcome>>
    BY DEF Crash, tables, world
  <2>2. OwnerRecordKept'
    <3> SUFFICES ASSUME NEW c \in Call, pc'[c] \in {"queued", "dispatched"}
                 PROVE  IdOf(c)' \in records'[host'[c]]
      BY DEF OwnerRecordKept, HasRecord
    <3>1. host[c] # h /\ pc[c] = pc'[c]
      BY <2>1
    <3>2. host[c] \in Host
      BY <3>1, Started
    <3> QED BY <2>1, <3>1, <3>2 DEF FreshInv, OwnerRecordKept, HasRecord, IdOf, IInv, TypeOK
  <2>3. \A c \in Call : OutcomeOK(c)'
    BY <2>1 DEF FreshInv, OutcomeOK, KeyOf
  <2> QED BY <2>1, <2>2, <2>3 DEF FreshInv
<1>4. CASE UNCHANGED vars
  BY <1>4 DEF vars, tables, memory, calls, world, FreshInv, OwnerRecordKept, HasRecord, OutcomeOK,
              KeyOf, IdOf
<1> QED BY <1>1, <1>2, <1>3, <1>4 DEF Next

\* With identifiers of their own, calls keep what the honesty of verdicts rests on.
THEOREM FreshInvariance == ASSUME FreshIds PROVE Spec => []FreshInv
<1>1. IInv /\ FreshInv /\ [Next]_vars => FreshInv'
  BY NextFresh
<1> QED BY <1>1, InitFresh, Invariance, PTL DEF Spec

\* An owner's record is kept while it executes, if no other call has its identifier.
THEOREM OwnersKeepTheirRecords == ASSUME FreshIds PROVE Spec => []OwnerRecordKept
<1>1. FreshInv => OwnerRecordKept
  BY DEF FreshInv
<1> QED BY <1>1, FreshInvariance, PTL

------------------------------------------------------------------------------
(* The refinement.                                                         *)

\* What a call does to the record of a key is one move of the ledger, or none.
LEMMA CallRefines ==
  ASSUME IInv, FreshInv, NEW c \in Call, Start(c) \/ Step(c) \/ Heartbeat(c)
  PROVE  [Ledger!Next]_(Ledger!vars)
<1>1. CASE UNCHANGED <<status, effects>>
  BY <1>1 DEF Ledger!vars
<1>2. CASE Acquire(c)
  <2> PICK k \in Key : k = KeyOf(c)
    BY <1>2, Started DEF Acquire, At
  <2>1. CASE Claim(c)
    <3>1. Ledger!Begin(k)
      BY <1>2, <2>1 DEF Acquire, Claim, world, Ledger!Begin
    <3> QED BY <3>1 DEF Ledger!Next
  <2>2. CASE status[k] = "IN_PROGRESS" /\ AbandonOwner(c)
    <3>1. /\ status' = [status EXCEPT ![k] = "OUTCOME_UNKNOWN"] /\ UNCHANGED effects
      BY <1>2, <2>2 DEF Acquire, AbandonOwner, world
    <3>2. Ledger!Settle(k)
      BY <2>2, <3>1 DEF Ledger!Settle, Ledger!Final
    <3> QED BY <3>2 DEF Ledger!Next
  <2>3. CASE UNCHANGED tables
    BY <1>1, <1>2, <2>3 DEF Acquire, tables, world
  <2> QED BY <1>2, <2>1, <2>2, <2>3 DEF Acquire
<1>3. CASE Finalize(c) /\ Finalizable(c)
           /\ \E v \in {outcome[c], "OUTCOME_UNKNOWN"} : status' = [status EXCEPT ![KeyOf(c)] = v]
  <2> PICK k \in Key : k = KeyOf(c) /\ pc[c] = "ended"
    BY <1>3, Started DEF Finalize, At
  <2>1. PICK v \in {outcome[c], "OUTCOME_UNKNOWN"} : status' = [status EXCEPT ![k] = v]
    BY <1>3
  <2>2. v \in Final /\ status[k] = "IN_PROGRESS" /\ UNCHANGED effects
    BY <1>3 DEF Finalize, Finalizable, world, IInv, CallOK, TypeOK, Final
  <2>3. OutcomeOK(c) /\ KeyOK(k)
    BY DEF IInv, FreshInv
  <2>4. (v = "SUCCEEDED" => effects[k] = 1) /\ (v = "REJECTED" => effects[k] = 0)
    BY <2>1, <2>3 DEF OutcomeOK, KeyOK
  <2>5. Ledger!Settle(k)
    BY <2>1, <2>2, <2>4 DEF Ledger!Settle, Ledger!Final, Final
  <2> QED BY <2>5 DEF Ledger!Next
<1>4. CASE ~Acquire(c) /\ ~Finalize(c)
  BY <1>1, <1>4 DEF Start, Step, Heartbeat, Coordinate, Follow, RunOwner, Withdraw, Dispatch,
                    ToolReturns, Leave, tables, world
<1> QED BY <1>1, <1>2, <1>3, <1>4 DEF Finalize, world

\* An effect happens while its outcome is open, and once.
LEMMA EffectRefines ==
  ASSUME IInv, FreshInv, NEW k \in Key, Effect(k)
  PROVE  [Ledger!Next]_(Ledger!vars)
<1>1. /\ tool[k] = "sent" /\ effects' = [effects EXCEPT ![k] = @ + 1] /\ UNCHANGED status
  BY DEF Effect, tables
<1>2. effects[k] = 0 /\ status[k] \in {"IN_PROGRESS", "OUTCOME_UNKNOWN"}
  BY <1>1 DEF IInv, KeyOK, FreshInv
<1>3. effects' = [effects EXCEPT ![k] = 1]
  BY <1>1, <1>2 DEF IInv, TypeOK
<1>4. Ledger!Strike(k)
  BY <1>1, <1>2, <1>3 DEF Ledger!Strike
<1> QED BY <1>4 DEF Ledger!Next

\* The executor implements the ledger, for any number of calls, processes and crashes: a side
\* effect happens once at most, no verdict denies or claims one wrongly, and none is revised.
THEOREM Refinement == ASSUME FreshIds PROVE Spec => ImplementsLedger
<1>1. Init => Ledger!Init
  BY DEF Init, Ledger!Init
<1>2. IInv /\ FreshInv /\ [Next]_vars => [Ledger!Next]_(Ledger!vars)
  <2> SUFFICES ASSUME IInv, FreshInv, [Next]_vars PROVE [Ledger!Next]_(Ledger!vars)
    OBVIOUS
  <2>1. CASE UNCHANGED <<status, effects>>
    BY <2>1 DEF Ledger!vars
  <2>2. CASE \E c \in Call : Start(c) \/ Step(c) \/ Heartbeat(c)
    BY <2>2, CallRefines
  <2>3. CASE \E k \in Key : Effect(k)
    BY <2>3, EffectRefines
  <2> QED BY <2>1, <2>2, <2>3 DEF Next, Refuse, Crash, Tick, vars, tables, world
<1> QED BY <1>1, <1>2, Invariance, FreshInvariance, PTL DEF Spec, ImplementsLedger, Ledger!Spec
===============================================================================
