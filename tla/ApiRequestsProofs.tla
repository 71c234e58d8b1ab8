---------------------------- MODULE ApiRequestsProofs ----------------------------
(***************************************************************************)
(* Proofs about ApiRequests, for any number of requests and sessions, any  *)
(* routes and any limits.                                                  *)
(*                                                                         *)
(* What makes the capacity add up is that nobody waits while there is      *)
(* room: a permit that goes back wakes one request or none (WokenIsFirst), *)
(* so the count stays that of the permits.  A client that leaves is        *)
(* noticed from the moment its request is admitted; before, it becomes     *)
(* early, and what that request holds is excepted.  The runs of a session  *)
(* keep apart because whoever is between Begin and Settle is the one that  *)
(* the session names.                                                      *)
(***************************************************************************)
EXTENDS ApiRequests, SequenceTheorems, FiniteSetTheorems, TLAPS

Place == {"new", "answering", "done", "lost"} \cup Waiting \cup AtWork

Held == {r \in Request : permit[r] = "held"}

\* The requests in a queue.
InQueue(q) == {q[i] : i \in 1..Len(q)}

Distinct(q) == \A i, j \in 1..Len(q) : q[i] = q[j] => i = j

\* The queue holds who waits in it, once.
Line ==
  /\ queue \in Seq(Request) /\ Len(queue) <= MaxQueue
  /\ InQueue(queue) = {r \in Request : At(r, "queued")}
  /\ Distinct(queue)

\* The count is that of the permits, and nobody waits while there is room.
Count ==
  /\ IsFiniteSet(Held) /\ active = Cardinality(Held)
  /\ active \in 0..MaxConcurrent
  /\ queue # <<>> => accepting /\ active = MaxConcurrent

\* What a request holds, and what is known of its client.
RequestOK(r) ==
  /\ pc[r] \in {"new"} \cup Waiting => permit[r] = "none"
  /\ r \notin early =>
       /\ pc[r] \in {"new"} \cup Waiting => client[r] = "open"
       /\ At(r, "entered") /\ kind[r] = "subscription" => client[r] = "open"
       /\ permit[r] = "held" => client[r] = "open" /\ pc[r] \in AtWork \cup {"answering"}
       /\ r \in listening => client[r] = "open" /\ At(r, "subscribed")

Types ==
  /\ server \in {"up", "draining", "expired", "closed"} /\ accepting \in BOOLEAN
  /\ pc \in [Request -> Place]
  /\ client \in [Request -> {"open", "closed"}]
  /\ permit \in [Request -> {"none", "held", "released"}]
  /\ running \in [Session -> Request \cup {None}] /\ slot \in [Session -> Request \cup {None}]
  /\ budget \in [Request -> {"off", "set", "fired", "missed"}]
  /\ cancelledBy \in [Request -> {"nobody", "own", "lookup", "budget", "shutdown", "other"}]
  /\ aborted \subseteq Request /\ early \subseteq Request /\ listening \subseteq Request

\* A session names the request that is between Begin and Settle in it, and nobody's
\* disconnect cancels another one's run but by its own lookup.
RunInv ==
  /\ \A r \in Request : pc[r] \in InRun => running[SessionOf[r]] = r
  /\ \A s \in Session : running[s] # None =>
       /\ SessionOf[running[s]] = s
       /\ pc[running[s]] \in InRun
       /\ slot[s] = running[s]
  /\ \A r \in Request : cancelledBy[r] # "other"

IInv ==
  /\ Types /\ Line /\ Count
  /\ \A r \in Request : RequestOK(r)
  /\ RunInv

------------------------------------------------------------------------------
(* Queues.                                                                 *)

\* Whoever joins the queue comes last in it.
LEMMA Joins ==
  ASSUME NEW q \in Seq(Request), Distinct(q), NEW r \in Request, r \notin InQueue(q)
  PROVE  /\ Append(q, r) \in Seq(Request) /\ Len(Append(q, r)) = Len(q) + 1
         /\ InQueue(Append(q, r)) = InQueue(q) \cup {r}
         /\ Distinct(Append(q, r))
<1> DEFINE n == Len(q)
           p == Append(q, r)
<1>1. /\ n \in Nat /\ p \in Seq(Request) /\ Len(p) = n + 1
      /\ \A i \in 1..n : p[i] = q[i]
      /\ p[n + 1] = r
  BY AppendProperties, LenProperties
<1> HIDE DEF n, p
<1>2. 1..Len(p) = (1..n) \cup {n + 1}
  BY <1>1
<1>3. InQueue(q) = {q[i] : i \in 1..n} /\ \A i, j \in 1..n : q[i] = q[j] => i = j
  BY DEF InQueue, Distinct, n
<1>4. InQueue(p) = InQueue(q) \cup {r}
  <2>1. InQueue(p) = {p[i] : i \in 1..n} \cup {p[n + 1]}
    BY <1>2 DEF InQueue
  <2>2. {p[i] : i \in 1..n} = {q[i] : i \in 1..n}
    BY <1>1
  <2> QED BY <1>1, <1>3, <2>1, <2>2
<1>5. Distinct(p)
  BY <1>1, <1>2, <1>3 DEF Distinct
<1> QED BY <1>1, <1>4, <1>5 DEF n, p

\* Whoever leaves the queue, from any place in it, leaves the others as they are.
LEMMA Leaves ==
  ASSUME NEW q \in Seq(Request), Distinct(q), NEW k \in 1..Len(q), NEW p,
         Len(p) = Len(q) - 1, p \in Seq(Request),
         \A i \in 1..Len(q) - 1 : p[i] = IF i < k THEN q[i] ELSE q[i + 1]
  PROVE  InQueue(p) = InQueue(q) \ {q[k]} /\ Distinct(p)
<1> DEFINE n == Len(q)
<1>1. n \in Nat /\ 1..Len(p) = 1..(n - 1)
  BY LenProperties
<1>2. /\ InQueue(q) = {q[i] : i \in 1..n} /\ k \in 1..n
      /\ \A i, j \in 1..n : q[i] = q[j] => i = j
      /\ \A i \in 1..(n - 1) : p[i] = IF i < k THEN q[i] ELSE q[i + 1]
  BY DEF InQueue, Distinct
<1> HIDE DEF n
<1>3. \A i \in 1..(n - 1) : (IF i < k THEN i ELSE i + 1) \in 1..n \ {k}
  BY <1>1, <1>2
<1>4. \A j \in 1..n \ {k} : \E i \in 1..(n - 1) : j = IF i < k THEN i ELSE i + 1
  <2>1. ASSUME NEW j \in 1..n, j < k PROVE j \in 1..(n - 1)
    BY <1>1, <1>2, <2>1
  <2>2. ASSUME NEW j \in 1..n, j > k PROVE j - 1 \in 1..(n - 1) /\ ~(j - 1 < k) /\ j = (j - 1) + 1
    BY <1>1, <1>2, <2>2
  <2> SUFFICES ASSUME NEW j \in 1..n \ {k}
               PROVE  \E i \in 1..(n - 1) : j = IF i < k THEN i ELSE i + 1
    OBVIOUS
  <2>3. CASE j < k
    <3>1. j = IF j < k THEN j ELSE j + 1
      BY <2>3
    <3> QED BY <2>1, <2>3, <3>1
  <2>4. CASE j > k
    <3>1. j = IF j - 1 < k THEN j - 1 ELSE (j - 1) + 1
      BY <2>2, <2>4
    <3> QED BY <2>2, <2>4, <3>1
  <2>5. j < k \/ j > k
    BY <1>1, <1>2
  <2> QED BY <2>3, <2>4, <2>5
<1>5. \A i \in 1..(n - 1) : p[i] = q[IF i < k THEN i ELSE i + 1]
  BY <1>2
<1>6. InQueue(p) = InQueue(q) \ {q[k]}
  <2>1. ASSUME NEW x \in InQueue(p) PROVE x \in InQueue(q) \ {q[k]}
    <3>1. PICK i \in 1..(n - 1) : x = p[i]
      BY <1>1 DEF InQueue
    <3>2. PICK j \in 1..n \ {k} : j = IF i < k THEN i ELSE i + 1
      BY <1>3
    <3>3. x = q[j]
      BY <1>5, <3>1, <3>2
    <3> QED BY <1>2, <3>2, <3>3
  <2>2. ASSUME NEW x \in InQueue(q) \ {q[k]} PROVE x \in InQueue(p)
    <3>1. PICK j \in 1..n \ {k} : x = q[j]
      BY <1>2
    <3>2. PICK i \in 1..(n - 1) : j = IF i < k THEN i ELSE i + 1
      BY <1>4
    <3>3. x = p[i]
      BY <1>5, <3>1, <3>2
    <3> QED BY <1>1, <3>2, <3>3 DEF InQueue
  <2> QED BY <2>1, <2>2
<1>7. Distinct(p)
  <2> SUFFICES ASSUME NEW i \in 1..(n - 1), NEW j \in 1..(n - 1), p[i] = p[j] PROVE i = j
    BY <1>1 DEF Distinct
  <2>1. PICK a \in 1..n : a = IF i < k THEN i ELSE i + 1
    BY <1>3
  <2>2. PICK b \in 1..n : b = IF j < k THEN j ELSE j + 1
    BY <1>3
  <2>3. q[a] = q[b]
    BY <1>5, <2>1, <2>2
  <2>4. a = b
    BY <1>2, <2>3
  <2> QED BY <1>1, <1>2, <2>1, <2>2, <2>4
<1> QED BY <1>6, <1>7

\* The queue timeout takes a request out of the queue wherever it is.
LEMMA TakenOut ==
  ASSUME NEW q \in Seq(Request), Distinct(q), NEW k \in 1..Len(q)
  PROVE  /\ RemoveAt(q, k) \in Seq(Request) /\ Len(RemoveAt(q, k)) = Len(q) - 1
         /\ InQueue(RemoveAt(q, k)) = InQueue(q) \ {q[k]}
         /\ Distinct(RemoveAt(q, k))
<1> DEFINE n == Len(q)
           a == SubSeq(q, 1, k - 1)
           b == SubSeq(q, k + 1, n)
<1>1. n \in Nat /\ k \in 1..n /\ \A i \in 1..n : q[i] \in Request
  BY LenProperties
<1>2. k - 1 \in Int /\ k + 1 \in Int /\ n \in Int
  BY <1>1
<1>3. (\A i \in 1..(k - 1) : q[i] \in Request) /\ (\A i \in (k + 1)..n : q[i] \in Request)
  BY <1>1
<1>4. /\ a \in Seq(Request) /\ Len(a) = IF 1 <= k - 1 THEN (k - 1) - 1 + 1 ELSE 0
      /\ \A i \in 1..((k - 1) - 1 + 1) : a[i] = q[1 + i - 1]
  BY <1>2, <1>3, SubSeqProperties
<1>5. /\ b \in Seq(Request) /\ Len(b) = IF k + 1 <= n THEN n - (k + 1) + 1 ELSE 0
      /\ \A i \in 1..(n - (k + 1) + 1) : b[i] = q[(k + 1) + i - 1]
  BY <1>2, <1>3, SubSeqProperties
<1>6. /\ a \o b \in Seq(Request) /\ Len(a \o b) = Len(a) + Len(b)
      /\ \A i \in 1..(Len(a) + Len(b)) : (a \o b)[i] = IF i <= Len(a) THEN a[i] ELSE b[i - Len(a)]
  BY <1>4, <1>5, ConcatProperties
<1>7. RemoveAt(q, k) = a \o b
  BY DEF RemoveAt
<1> HIDE DEF n, a, b
<1>8. Len(a) = k - 1 /\ Len(b) = n - k
  BY <1>1, <1>4, <1>5
<1>9. \A i \in 1..(n - 1) : (a \o b)[i] = IF i < k THEN q[i] ELSE q[i + 1]
  <2> SUFFICES ASSUME NEW i \in 1..(n - 1)
               PROVE  (a \o b)[i] = IF i < k THEN q[i] ELSE q[i + 1]
    OBVIOUS
  <2>1. i \in 1..(Len(a) + Len(b)) /\ (i <= Len(a) <=> i < k)
    BY <1>1, <1>8
  <2>2. CASE i < k
    <3>1. i \in 1..((k - 1) - 1 + 1) /\ 1 + i - 1 = i
      BY <1>1, <2>2
    <3> QED BY <1>4, <1>6, <2>1, <2>2, <3>1
  <2>3. CASE ~(i < k)
    <3>1. /\ i - Len(a) \in 1..(n - (k + 1) + 1)
          /\ (k + 1) + (i - Len(a)) - 1 = i + 1
      BY <1>1, <1>8, <2>3
    <3> QED BY <1>5, <1>6, <2>1, <2>3, <3>1
  <2> QED BY <2>2, <2>3
<1>10. Len(a \o b) = n - 1
  BY <1>1, <1>6, <1>8
<1>11. InQueue(a \o b) = InQueue(q) \ {q[k]} /\ Distinct(a \o b)
  BY <1>6, <1>9, <1>10, Leaves DEF n
<1> QED BY <1>6, <1>7, <1>10, <1>11 DEF n

\* The first of a queue is shifted out of it.
LEMMA Shifted ==
  ASSUME NEW q \in Seq(Request), Distinct(q), q # <<>>
  PROVE  /\ SubSeq(q, 2, Len(q)) \in Seq(Request) /\ Len(SubSeq(q, 2, Len(q))) = Len(q) - 1
         /\ 1 \in 1..Len(q)
         /\ InQueue(SubSeq(q, 2, Len(q))) = InQueue(q) \ {q[1]}
         /\ Distinct(SubSeq(q, 2, Len(q)))
<1> DEFINE n == Len(q)
           p == SubSeq(q, 2, n)
<1>1. n \in Nat /\ n # 0 /\ \A i \in 1..n : q[i] \in Request
  BY LenProperties, EmptySeq
<1>2. 2 \in Int /\ n \in Int /\ 1 \in 1..n /\ \A i \in 2..n : q[i] \in Request
  BY <1>1
<1>3. /\ p \in Seq(Request) /\ Len(p) = IF 2 <= n THEN n - 2 + 1 ELSE 0
      /\ \A i \in 1..(n - 2 + 1) : p[i] = q[2 + i - 1]
  BY <1>2, SubSeqProperties
<1> HIDE DEF n, p
<1>4. Len(p) = n - 1
  BY <1>1, <1>3
<1>5. \A i \in 1..(n - 1) : p[i] = IF i < 1 THEN q[i] ELSE q[i + 1]
  BY <1>1, <1>3
<1>6. InQueue(p) = InQueue(q) \ {q[1]} /\ Distinct(p)
  BY <1>2, <1>3, <1>4, <1>5, Leaves DEF n
<1> QED BY <1>2, <1>3, <1>4, <1>6 DEF n, p
------------------------------------------------------------------------------
(* What steps have in common.                                              *)

\* The places of a request are apart.
LEMMA Places ==
  /\ InRun \subseteq AtWork /\ AtWork \cap Waiting = {}
  /\ "queued" \in Waiting /\ "entered" \in AtWork
  /\ "queued" \notin InRun /\ "entered" \notin InRun /\ "answering" \notin InRun
  /\ "answering" \notin Waiting /\ "done" \notin Waiting
BY DEF InRun, AtWork, Waiting

\* Nothing that the queue and the count depend on changes.
LEMMA AdmissionStands ==
  ASSUME IInv, UNCHANGED <<accepting, active, queue, permit>>,
         \A r \in Request : At(r, "queued")' <=> At(r, "queued")
  PROVE  Line' /\ Count'
<1>1. Line /\ Count
  BY DEF IInv
<1>2. Held' = Held
  BY DEF Held
<1>3. InQueue(queue)' = InQueue(queue) /\ Distinct(queue)' = Distinct(queue)
  BY DEF InQueue, Distinct
<1>4. {r \in Request : At(r, "queued")}' = {r \in Request : At(r, "queued")}
  OBVIOUS
<1>5. Line'
  BY <1>1, <1>3, <1>4 DEF Line
<1>6. Count'
  BY <1>1, <1>2 DEF Count
<1> QED BY <1>5, <1>6

\* Runs stay as they are, and whoever is cancelled is not by somebody else.
LEMMA RunsStand ==
  ASSUME IInv, UNCHANGED <<running, slot>>,
         \A r \in Request : pc'[r] \in InRun <=> pc[r] \in InRun,
         \A r \in Request : cancelledBy'[r] # cancelledBy[r] => cancelledBy'[r] # "other"
  PROVE  RunInv'
<1>1. RunInv /\ \A s \in Session : running[s] # None => running[s] \in Request
  BY DEF IInv, Types
<1>2. \A r \in Request : pc'[r] \in InRun => running'[SessionOf[r]] = r
  BY <1>1 DEF RunInv
<1>3. \A s \in Session : running'[s] # None =>
        SessionOf[running'[s]] = s /\ pc'[running'[s]] \in InRun /\ slot'[s] = running'[s]
  BY <1>1 DEF RunInv
<1>4. \A r \in Request : cancelledBy'[r] # "other"
  BY <1>1 DEF RunInv
<1> QED BY <1>2, <1>3, <1>4 DEF RunInv

\* A request goes from one place to another without admission, and a subscriber listens.
LEMMA Moves ==
  ASSUME IInv, NEW r \in Request, NEW place \in Place,
         pc' = [pc EXCEPT ![r] = place],
         UNCHANGED <<kind, accepting, active, queue, client, permit, early>>,
         pc[r] \notin {"queued", "subscribed"}, place \notin {"queued", "entered"},
         place \in {"new"} \cup Waiting => pc[r] \in {"new"} \cup Waiting,
         place \in AtWork \cup {"answering"} \/ permit[r] # "held" \/ r \in early,
         \/ listening' = listening
         \/ /\ listening' = listening \cup {r} /\ place = "subscribed"
            /\ client[r] = "open" \/ r \in early
  PROVE  Line' /\ Count' /\ \A q \in Request : RequestOK(q)'
<1>1. Types /\ \A q \in Request : RequestOK(q)
  BY DEF IInv
<1>2. pc'[r] = place /\ \A q \in Request \ {r} : pc'[q] = pc[q]
  BY <1>1 DEF Types
<1>3. Line' /\ Count'
  BY <1>2, AdmissionStands DEF At
<1>4. ASSUME NEW q \in Request \ {r} PROVE RequestOK(q)'
  <2>1. RequestOK(q) /\ (q \in listening' <=> q \in listening)
    BY <1>1
  <2> QED BY <1>2, <2>1 DEF RequestOK, At
<1>5. RequestOK(r)'
  <2>1. RequestOK(r) /\ (r \notin early => r \notin listening)
    BY <1>1 DEF RequestOK, At
  <2>2. pc'[r] \in {"new"} \cup Waiting => permit'[r] = "none"
    BY <1>2, <2>1 DEF RequestOK
  <2>3. ASSUME r \notin early'
        PROVE  /\ pc'[r] \in {"new"} \cup Waiting => client'[r] = "open"
               /\ permit'[r] = "held" => client'[r] = "open" /\ pc'[r] \in AtWork \cup {"answering"}
    BY <1>2, <2>1, <2>3 DEF RequestOK
  <2>4. r \notin early' /\ r \in listening' => client'[r] = "open" /\ At(r, "subscribed")'
    BY <1>2, <2>1 DEF At
  <2>5. ~At(r, "entered")'
    BY <1>2 DEF At
  <2> QED BY <2>2, <2>3, <2>4, <2>5 DEF RequestOK
<1> QED BY <1>3, <1>4, <1>5

------------------------------------------------------------------------------
(* Admission.                                                              *)

\* While somebody waits there is no room, so a permit that goes back wakes the first in
\* the queue and nobody else.
LEMMA WokenIsFirst ==
  ASSUME IInv, NEW r \in Request, permit[r] = "held"
  PROVE  /\ active >= 1
         /\ queue = <<>> => Woken = {}
         /\ queue # <<>> => Woken = {queue[1]}
<1>1. /\ IsFiniteSet(Held) /\ active = Cardinality(Held) /\ active \in 0..MaxConcurrent
      /\ queue # <<>> => accepting /\ active = MaxConcurrent
      /\ queue \in Seq(Request) /\ MaxConcurrent \in Nat
  BY ApiAssumption DEF IInv, Count, Line
<1>2. r \in Held /\ active \in Nat
  BY <1>1 DEF Held
<1>3. active # 0
  BY <1>1, <1>2, FS_EmptySet
<1>4. Len(queue) \in Nat /\ (queue = <<>> <=> Len(queue) = 0)
  BY <1>1, EmptySeq, LenProperties
<1>5. PICK room \in Int : room = (MaxConcurrent + 1) - active
  BY <1>1, <1>2
<1>6. PICK n \in Int : n = IF room < Len(queue) THEN room ELSE Len(queue)
  BY <1>4
<1>7. Woken = IF accepting THEN {queue[i] : i \in 1..n} ELSE {}
  BY <1>5, <1>6 DEF Woken
<1>8. CASE queue = <<>>
  <2>1. n = 0
    BY <1>1, <1>2, <1>4, <1>5, <1>6, <1>8
  <2>2. {queue[i] : i \in 1..n} = {}
    BY <2>1
  <2> QED BY <1>2, <1>3, <1>7, <1>8, <2>2
<1>9. CASE queue # <<>>
  <2>1. n = 1
    <3>1. active = MaxConcurrent
      BY <1>1, <1>9
    <3>2. room = 1
      BY <1>1, <1>5, <3>1
    <3>3. Len(queue) >= 1
      BY <1>4, <1>9
    <3>4. \A k \in Nat : k >= 1 => (IF 1 < k THEN 1 ELSE k) = 1
      OBVIOUS
    <3>5. (IF 1 < Len(queue) THEN 1 ELSE Len(queue)) = 1
      BY <1>4, <3>3, <3>4
    <3> QED BY <1>6, <3>2, <3>5
  <2>2. {queue[i] : i \in 1..n} = {queue[1]}
    <3>1. 1..1 = {1}
      OBVIOUS
    <3> QED BY <2>1, <3>1
  <2>3. accepting
    BY <1>1, <1>9
  <2>4. Woken = {queue[1]}
    BY <1>7, <2>2, <2>3
  <2> QED BY <1>2, <1>3, <1>9, <2>4
<1> QED BY <1>8, <1>9

\* What the release of a permit does to the requests.
LEMMA Releasing ==
  ASSUME IInv, NEW r \in Request, NEW p \in Place, Release(r, p), accepting' = accepting,
         p = "queued" <=> pc[r] = "queued"
  PROVE  /\ Line' /\ Count'
         /\ pc' \in [Request -> Place] /\ permit' \in [Request -> {"none", "held", "released"}]
         /\ pc'[r] = p /\ permit'[r] # "held"
         /\ permit[r] = "none" => permit'[r] = "none"
         /\ \A q \in Request \ {r} :
              \/ pc'[q] = pc[q] /\ permit'[q] = permit[q]
              \/ pc[q] = "queued" /\ pc'[q] = "entered" /\ permit'[q] = "held"
<1>1. Types /\ Line /\ Count /\ \A q \in Request : RequestOK(q)
  BY DEF IInv
<1>2. CASE permit[r] # "held"
  <2>1. pc' = [pc EXCEPT ![r] = p] /\ UNCHANGED <<active, queue, permit>>
    BY <1>2 DEF Release, GoTo
  <2>2. pc'[r] = p /\ \A q \in Request \ {r} : pc'[q] = pc[q]
    BY <1>1, <2>1 DEF Types
  <2>3. Line' /\ Count'
    BY <2>1, <2>2, AdmissionStands DEF At
  <2> QED BY <1>1, <1>2, <2>1, <2>2, <2>3 DEF Types
<1>3. CASE permit[r] = "held"
  <2>1. /\ active' = (active - 1) + Cardinality(Woken)
        /\ queue' = SubSeq(queue, Cardinality(Woken) + 1, Len(queue))
        /\ permit' = [q \in Request |-> IF q = r THEN "released"
                                        ELSE IF q \in Woken THEN "held" ELSE permit[q]]
        /\ pc' = [q \in Request |-> IF q = r THEN p
                                    ELSE IF q \in Woken THEN "entered" ELSE pc[q]]
    BY <1>3 DEF Release
  <2>2. /\ active >= 1 /\ active \in 0..MaxConcurrent /\ MaxConcurrent \in Nat
        /\ IsFiniteSet(Held) /\ active = Cardinality(Held)
        /\ queue # <<>> => accepting /\ active = MaxConcurrent
        /\ queue \in Seq(Request) /\ Len(queue) <= MaxQueue /\ Distinct(queue)
        /\ InQueue(queue) = {q \in Request : pc[q] = "queued"}
    BY <1>1, <1>3, WokenIsFirst, ApiAssumption DEF Line, Count, At
  <2>3. r \in Held /\ pc[r] # "queued" /\ p # "queued"
    BY <1>1, <1>3 DEF Held, RequestOK, Waiting
  <2>4. IsFiniteSet(Held \ {r}) /\ Cardinality(Held \ {r}) = active - 1
    BY <2>2, <2>3, FS_RemoveElement
  <2>5. CASE queue = <<>>
    <3>1. Woken = {} /\ Cardinality(Woken) = 0
      BY <1>3, <2>5, WokenIsFirst, FS_EmptySet
    <3>2. /\ \A q \in Request \ {r} : pc'[q] = pc[q] /\ permit'[q] = permit[q]
          /\ pc'[r] = p /\ permit'[r] = "released"
      BY <2>1, <3>1
    <3>3. active' = active - 1
      BY <2>1, <2>2, <3>1
    <3>4. queue' = queue
      <4>1. Len(queue) = 0 /\ Cardinality(Woken) + 1 = 1
        BY <2>2, <2>5, <3>1, EmptySeq, LenProperties
      <4>2. SubSeq(queue, 1, 0) = <<>>
        BY SubSeqEmpty
      <4> QED BY <2>1, <2>5, <4>1, <4>2
    <3>5. Held' = Held \ {r}
      BY <3>2 DEF Held
    <3>6. Line'
      <4>1. {q \in Request : pc'[q] = "queued"} = {q \in Request : pc[q] = "queued"}
        BY <2>3, <3>2
      <4>2. InQueue(queue') = InQueue(queue) /\ Distinct(queue')
        BY <2>2, <3>4 DEF InQueue, Distinct
      <4> QED BY <2>2, <3>4, <4>1, <4>2 DEF Line, At
    <3>7. Count'
      BY <2>2, <2>4, <2>5, <3>3, <3>4, <3>5 DEF Count
    <3>8. pc' \in [Request -> Place] /\ permit' \in [Request -> {"none", "held", "released"}]
      BY <1>1, <2>1, <3>1 DEF Types
    <3> QED BY <1>3, <3>2, <3>6, <3>7, <3>8
  <2>6. CASE queue # <<>>
    <3>1. /\ SubSeq(queue, 2, Len(queue)) \in Seq(Request)
          /\ Len(SubSeq(queue, 2, Len(queue))) = Len(queue) - 1
          /\ 1 \in 1..Len(queue)
          /\ InQueue(SubSeq(queue, 2, Len(queue))) = InQueue(queue) \ {queue[1]}
          /\ Distinct(SubSeq(queue, 2, Len(queue)))
      BY <2>2, <2>6, Shifted
    <3>2. PICK w \in Request : w = queue[1] /\ pc[w] = "queued"
      BY <2>2, <3>1 DEF InQueue
    <3>3. Woken = {w} /\ Cardinality(Woken) = 1
      BY <1>3, <2>6, <3>2, WokenIsFirst, FS_Singleton
    <3>4. w # r /\ w \notin Held
      BY <1>1, <2>3, <3>2 DEF RequestOK, Waiting, Held
    <3>5. /\ \A q \in Request \ {r, w} : pc'[q] = pc[q] /\ permit'[q] = permit[q]
          /\ pc'[r] = p /\ permit'[r] = "released"
          /\ pc'[w] = "entered" /\ permit'[w] = "held"
      BY <2>1, <3>3, <3>4
    <3>6. active' = active
      BY <2>1, <2>2, <3>3
    <3>7. queue' = SubSeq(queue, 2, Len(queue))
      <4>1. Cardinality(Woken) + 1 = 2
        BY <3>3
      <4> QED BY <2>1, <4>1
    <3>8. Held' = (Held \ {r}) \cup {w}
      BY <3>4, <3>5 DEF Held
    <3>9. IsFiniteSet(Held') /\ Cardinality(Held') = active
      <4>1. w \notin Held \ {r}
        BY <3>4
      <4>2. IsFiniteSet((Held \ {r}) \cup {w}) /\ Cardinality((Held \ {r}) \cup {w}) = (active - 1) + 1
        BY <2>4, <4>1, FS_AddElement
      <4> QED BY <2>2, <3>8, <4>2
    <3>10. Line'
      <4>1. {q \in Request : pc'[q] = "queued"} = {q \in Request : pc[q] = "queued"} \ {w}
        BY <2>3, <3>4, <3>5
      <4>2. Len(queue') <= MaxQueue
        BY <2>2, <3>1, <3>7, ApiAssumption, LenProperties
      <4> QED BY <2>2, <3>1, <3>2, <3>7, <4>1, <4>2 DEF Line, At
    <3>11. Count'
      BY <2>2, <2>6, <3>6, <3>9 DEF Count
    <3>12. pc' \in [Request -> Place] /\ permit' \in [Request -> {"none", "held", "released"}]
      BY <1>1, <2>1 DEF Types, Place, AtWork
    <3> QED BY <1>3, <3>2, <3>5, <3>10, <3>11, <3>12
  <2> QED BY <2>5, <2>6
<1> QED BY <1>2, <1>3

\* Who is woken was waiting, and its client is there unless it left early.
LEMMA WokenOK ==
  ASSUME NEW q \in Request, RequestOK(q), pc[q] = "queued", pc'[q] = "entered", permit'[q] = "held",
         kind' = kind, client'[q] = client[q], q \in early' <=> q \in early,
         q \in listening' <=> q \in listening
  PROVE  RequestOK(q)'
<1>1. q \notin early => client[q] = "open" /\ q \notin listening
  BY DEF RequestOK, At, Waiting
<1>2. pc'[q] \notin {"new"} \cup Waiting /\ pc'[q] \in AtWork
  BY DEF Waiting, AtWork
<1> QED BY <1>1, <1>2 DEF RequestOK

------------------------------------------------------------------------------
(* The steps.                                                              *)

\* A request arrives.
LEMMA ArriveStep ==
  ASSUME IInv, NEW r \in Request, Arrive(r) PROVE IInv'
<1>1. /\ pc[r] = "new"
      /\ UNCHANGED <<kind, server, admissionVars, client, permit, runVars, early, listening>>
      /\ pc' = [pc EXCEPT ![r] = "authenticating"]
  BY DEF Arrive, At, GoTo
<1>2. "authenticating" \in Place /\ "authenticating" \in Waiting /\ "authenticating" \notin InRun
  BY DEF Place, Waiting, InRun
<1>3. Types /\ RequestOK(r)
  BY DEF IInv
<1>4. permit[r] # "held"
  BY <1>1, <1>3 DEF RequestOK
<1>5. Line' /\ Count' /\ \A q \in Request : RequestOK(q)'
  BY <1>1, <1>2, <1>4, Moves DEF admissionVars
<1>6. Types'
  BY <1>1, <1>2, <1>3 DEF Types, admissionVars, runVars
<1>7. RunInv'
  BY <1>1, <1>2, <1>3, RunsStand DEF runVars, Types, InRun
<1> QED BY <1>5, <1>6, <1>7 DEF IInv

\* The handler of an admitted request starts, goes on or ends, outside a run.
LEMMA HandlerStep ==
  ASSUME IInv, NEW r \in Request, Enter(r) \/ Work(r) \/ Refused(r) PROVE IInv'
<1>1. PICK place \in {"subscribed", "working", "lookup", "answering", "lost"} :
        /\ pc' = [pc EXCEPT ![r] = place]
        /\ place = "lost" => client[r] # "open"
        /\ \/ listening' = listening
           \/ listening' = listening \cup {r} /\ place = "subscribed"
              /\ pc[r] = "entered" /\ kind[r] = "subscription"
  BY DEF Enter, Work, Refused, GoTo, Subscribe, At
<1>2. /\ pc[r] \in {"entered", "working", "lookup"}
      /\ UNCHANGED <<kind, server, admissionVars, client, permit, runVars, early>>
  BY DEF Enter, Work, Refused, At
<1>3. Types /\ RequestOK(r)
  BY DEF IInv
<1>4. /\ place \in Place /\ place \notin {"new"} \cup Waiting /\ place \notin InRun
      /\ pc[r] \notin InRun
      /\ place # "lost" => place \in AtWork \cup {"answering"}
  BY <1>2 DEF Place, Waiting, InRun, AtWork
<1>5. place = "lost" => permit[r] # "held" \/ r \in early
  BY <1>1, <1>3 DEF RequestOK
<1>6. pc[r] = "entered" /\ kind[r] = "subscription" => client[r] = "open" \/ r \in early
  BY <1>3 DEF RequestOK, At
<1>7. Line' /\ Count' /\ \A q \in Request : RequestOK(q)'
  <2>1. /\ pc[r] \notin {"queued", "subscribed"} /\ place \notin {"queued", "entered"}
        /\ place \in AtWork \cup {"answering"} \/ permit[r] # "held" \/ r \in early
        /\ \/ listening' = listening
           \/ /\ listening' = listening \cup {r} /\ place = "subscribed"
              /\ client[r] = "open" \/ r \in early
    BY <1>1, <1>2, <1>4, <1>5, <1>6
  <2> QED BY <1>1, <1>2, <1>4, <2>1, Moves DEF admissionVars
<1>8. Types'
  BY <1>1, <1>2, <1>3, <1>4 DEF Types, admissionVars, runVars
<1>9. RunInv'
  <2>1. pc'[r] = place /\ \A q \in Request \ {r} : pc'[q] = pc[q]
    BY <1>1, <1>3 DEF Types
  <2> QED BY <1>2, <1>4, <2>1, RunsStand DEF runVars
<1> QED BY <1>7, <1>8, <1>9 DEF IInv

\* A run takes its session, which nobody has.
LEMMA BeginStep ==
  ASSUME IInv, NEW r \in Request, Begin(r) PROVE IInv'
<1>1. /\ pc[r] = "lookup" /\ running[SessionOf[r]] = None
      /\ running' = [running EXCEPT ![SessionOf[r]] = r]
      /\ slot' = [slot EXCEPT ![SessionOf[r]] = r]
      /\ budget' = [budget EXCEPT ![r] = "set"]
      /\ pc' = [pc EXCEPT ![r] = "starting"]
      /\ UNCHANGED <<kind, server, accepting, active, queue, client, permit, cancelledBy,
                     aborted, early, listening>>
  BY DEF Begin, Free, Create, At, GoTo, admissionVars
<1>2. Types /\ RunInv /\ SessionOf[r] \in Session /\ None \notin Request
  BY ApiAssumption DEF IInv
<1>3. "starting" \in Place /\ "starting" \in AtWork /\ "starting" \in InRun /\ "starting" \notin Waiting
  BY DEF Place, AtWork, InRun, Waiting
<1>4. Line' /\ Count' /\ \A q \in Request : RequestOK(q)'
  BY <1>1, <1>3, Moves DEF InRun
<1>5. Types'
  BY <1>1, <1>2, <1>3 DEF Types
<1>6. /\ pc'[r] = "starting" /\ running'[SessionOf[r]] = r /\ slot'[SessionOf[r]] = r
      /\ \A q \in Request \ {r} : pc'[q] = pc[q]
      /\ \A s \in Session \ {SessionOf[r]} : running'[s] = running[s] /\ slot'[s] = slot[s]
  BY <1>1, <1>2 DEF Types
<1>7. ASSUME NEW q \in Request, pc'[q] \in InRun PROVE running'[SessionOf[q]] = q
  <2>1. CASE q = r
    BY <1>6, <2>1
  <2>2. CASE q # r
    <3>1. running[SessionOf[q]] = q
      BY <1>2, <1>6, <1>7, <2>2 DEF RunInv
    <3>2. SessionOf[q] # SessionOf[r] /\ SessionOf[q] \in Session
      BY <1>1, <1>2, <3>1, ApiAssumption
    <3> QED BY <1>6, <3>1, <3>2
  <2> QED BY <2>1, <2>2
<1>8. ASSUME NEW s \in Session, running'[s] # None
      PROVE  SessionOf[running'[s]] = s /\ pc'[running'[s]] \in InRun /\ slot'[s] = running'[s]
  <2>1. CASE s = SessionOf[r]
    BY <1>3, <1>6, <2>1
  <2>2. CASE s # SessionOf[r]
    <3>1. /\ running'[s] = running[s] /\ slot'[s] = slot[s] /\ running[s] \in Request
          /\ SessionOf[running[s]] = s /\ pc[running[s]] \in InRun /\ slot[s] = running[s]
      BY <1>2, <1>6, <1>8, <2>2 DEF RunInv, Types
    <3>2. running[s] # r
      BY <2>2, <3>1
    <3> QED BY <1>6, <3>1, <3>2
  <2> QED BY <2>1, <2>2
<1>9. RunInv'
  BY <1>1, <1>2, <1>7, <1>8 DEF RunInv
<1> QED BY <1>4, <1>5, <1>9 DEF IInv

\* A run goes on to the next of its awaits.
LEMMA RunStep ==
  ASSUME IInv, NEW r \in Request, StartRun(r) \/ PromptModel(r) \/ RunEnds(r)
  PROVE  IInv'
<1>1. PICK place \in {"opening", "running", "settling"} : pc' = [pc EXCEPT ![r] = place]
  BY DEF StartRun, PromptModel, RunEnds, GoTo
<1>2. /\ pc[r] \in {"starting", "opening", "running"}
      /\ UNCHANGED <<kind, server, admissionVars, client, permit, runVars, early, listening>>
  BY DEF StartRun, PromptModel, RunEnds, At
<1>3. Types
  BY DEF IInv
<1>4. /\ place \in Place /\ place \in AtWork /\ place \in InRun /\ place \notin Waiting
      /\ place # "new" /\ pc[r] \in InRun
  BY <1>2 DEF Place, AtWork, InRun, Waiting
<1>5. Line' /\ Count' /\ \A q \in Request : RequestOK(q)'
  BY <1>1, <1>2, <1>4, Moves DEF admissionVars
<1>6. Types'
  BY <1>1, <1>2, <1>3, <1>4 DEF Types, admissionVars, runVars
<1>7. RunInv'
  <2>1. pc'[r] = place /\ \A q \in Request \ {r} : pc'[q] = pc[q]
    BY <1>1, <1>3 DEF Types
  <2> QED BY <1>2, <1>4, <2>1, RunsStand DEF runVars
<1> QED BY <1>5, <1>6, <1>7 DEF IInv

\* A run gives its session back, which it still has.
LEMMA SettleStep ==
  ASSUME IInv, NEW r \in Request, Settle(r) PROVE IInv'
<1>1. /\ pc[r] = "settling"
      /\ budget' = [budget EXCEPT ![r] = "off"]
      /\ pc' = [pc EXCEPT ![r] = "answering"]
      /\ cancelledBy' = [cancelledBy EXCEPT ![r] = "nobody"] /\ aborted' = aborted \ {r}
      /\ UNCHANGED <<kind, server, accepting, active, queue, client, permit, slot, early, listening>>
  BY DEF Settle, ForgetRun, At, GoTo, admissionVars
<1>2. Types /\ RunInv /\ SessionOf[r] \in Session /\ None \notin Request
  BY ApiAssumption DEF IInv
<1>3. running[SessionOf[r]] = r
  BY <1>1, <1>2 DEF RunInv, InRun
<1>4. running' = [running EXCEPT ![SessionOf[r]] = None]
  BY <1>2, <1>3 DEF Settle
<1>5. "answering" \in Place /\ "answering" \notin InRun /\ "answering" \notin Waiting
  BY DEF Place, InRun, Waiting
<1>6. Line' /\ Count' /\ \A q \in Request : RequestOK(q)'
  BY <1>1, <1>5, Moves
<1>7. Types'
  BY <1>1, <1>2, <1>4, <1>5 DEF Types
<1>8. /\ pc'[r] = "answering" /\ running'[SessionOf[r]] = None
      /\ \A q \in Request \ {r} : pc'[q] = pc[q]
      /\ \A s \in Session \ {SessionOf[r]} : running'[s] = running[s]
  BY <1>1, <1>2, <1>4 DEF Types
<1>9. ASSUME NEW q \in Request, pc'[q] \in InRun PROVE running'[SessionOf[q]] = q
  <2>1. q # r /\ running[SessionOf[q]] = q
    BY <1>2, <1>5, <1>8, <1>9 DEF RunInv
  <2>2. SessionOf[q] # SessionOf[r] /\ SessionOf[q] \in Session
    BY <1>3, <2>1, ApiAssumption
  <2> QED BY <1>8, <2>1, <2>2
<1>10. ASSUME NEW s \in Session, running'[s] # None
       PROVE  SessionOf[running'[s]] = s /\ pc'[running'[s]] \in InRun /\ slot'[s] = running'[s]
  <2>1. /\ s # SessionOf[r] /\ running'[s] = running[s] /\ running[s] \in Request
        /\ SessionOf[running[s]] = s /\ pc[running[s]] \in InRun /\ slot[s] = running[s]
    BY <1>2, <1>8, <1>10 DEF RunInv, Types
  <2>2. running[s] # r
    BY <2>1
  <2> QED BY <1>1, <1>8, <2>1, <2>2
<1>11. \A q \in Request : cancelledBy'[q] # "other"
  BY <1>1, <1>2 DEF RunInv, Types
<1>12. RunInv'
  BY <1>9, <1>10, <1>11 DEF RunInv
<1> QED BY <1>6, <1>7, <1>12 DEF IInv

\* A request joins those admitted or those who wait, or is turned away.
LEMMA AuthenticateStep ==
  ASSUME IInv, NEW r \in Request, Authenticate(r) PROVE IInv'
<1>1. /\ pc[r] = "authenticating"
      /\ UNCHANGED <<kind, server, accepting, client, running, slot, budget, cancelledBy, aborted,
                     early, listening>>
  BY DEF Authenticate, At, runVars
<1>2. Types /\ Line /\ Count /\ \A q \in Request : RequestOK(q)
  BY DEF IInv
<1>3. /\ permit[r] = "none" /\ r \notin Held
      /\ r \notin early => client[r] = "open" /\ r \notin listening
  BY <1>1, <1>2 DEF RequestOK, Waiting, Held, At
<1>4. PICK place \in {"entered", "queued", "answering"} :
        /\ pc' = [pc EXCEPT ![r] = place]
        /\ place = "answering" => UNCHANGED <<active, queue, permit>>
        /\ place = "entered" =>
             /\ active < MaxConcurrent /\ queue = <<>> /\ queue' = queue
             /\ active' = active + 1 /\ permit' = [permit EXCEPT ![r] = "held"]
        /\ place = "queued" =>
             /\ accepting /\ Len(queue) < MaxQueue /\ ~(active < MaxConcurrent /\ queue = <<>>)
             /\ queue' = Append(queue, r) /\ UNCHANGED <<active, permit>>
  BY DEF Authenticate, Acquire, GoTo
<1>5. pc'[r] = place /\ \A q \in Request \ {r} : pc'[q] = pc[q]
  BY <1>2, <1>4 DEF Types
<1>6. place \in Place /\ place \notin InRun /\ pc[r] \notin InRun
  BY <1>1 DEF Place, InRun, AtWork, Waiting
<1>7. RunInv'
  BY <1>1, <1>5, <1>6, RunsStand
<1>8. permit' \in [Request -> {"none", "held", "released"}]
  BY <1>2, <1>4 DEF Types
<1>9. Types'
  BY <1>1, <1>2, <1>4, <1>6, <1>8 DEF Types
<1>10. CASE place = "answering"
  <2>1. Line' /\ Count' /\ \A q \in Request : RequestOK(q)'
    BY <1>1, <1>3, <1>4, <1>6, <1>10, Moves DEF Waiting
  <2> QED BY <1>7, <1>9, <2>1 DEF IInv
<1>11. CASE place = "entered"
  <2>1. /\ active < MaxConcurrent /\ queue = <<>> /\ queue' = queue
        /\ active' = active + 1
        /\ permit'[r] = "held" /\ \A q \in Request \ {r} : permit'[q] = permit[q]
    BY <1>2, <1>4, <1>11 DEF Types
  <2>2. Held' = Held \cup {r}
    BY <2>1 DEF Held
  <2>3. IsFiniteSet(Held') /\ Cardinality(Held') = active + 1
    BY <1>2, <1>3, <2>2, FS_AddElement DEF Count
  <2>4. Count'
    BY <1>2, <2>1, <2>3, ApiAssumption DEF Count
  <2>5. Line'
    <3>1. {q \in Request : pc'[q] = "queued"} = {q \in Request : pc[q] = "queued"}
      BY <1>1, <1>5, <1>11
    <3>2. InQueue(queue') = InQueue(queue) /\ (Distinct(queue') <=> Distinct(queue))
      BY <2>1
    <3> QED BY <1>2, <2>1, <3>1, <3>2 DEF Line, At
  <2>6. ASSUME NEW q \in Request PROVE RequestOK(q)'
    <3>1. CASE q = r
      <4>1. pc'[r] = "entered" /\ "entered" \notin {"new"} \cup Waiting /\ "entered" \in AtWork
        BY <1>5, <1>11 DEF Waiting, AtWork
      <4>2. /\ r \notin early' => client'[r] = "open" /\ r \notin listening'
            /\ client'[r] = client[r]
        BY <1>1, <1>3
      <4>3. RequestOK(r)'
        BY <4>1, <4>2 DEF RequestOK
      <4> QED BY <3>1, <4>3
    <3>2. CASE q # r
      BY <1>1, <1>2, <1>5, <2>1, <3>2 DEF RequestOK, At
    <3> QED BY <3>1, <3>2
  <2> QED BY <1>7, <1>9, <2>4, <2>5, <2>6 DEF IInv
<1>12. CASE place = "queued"
  <2>1. /\ accepting /\ Len(queue) < MaxQueue /\ ~(active < MaxConcurrent /\ queue = <<>>)
        /\ queue' = Append(queue, r) /\ UNCHANGED <<active, permit>>
    BY <1>4, <1>12
  <2>2. r \notin InQueue(queue)
    BY <1>1, <1>2 DEF Line, At
  <2>3. /\ Append(queue, r) \in Seq(Request) /\ Len(Append(queue, r)) = Len(queue) + 1
        /\ InQueue(Append(queue, r)) = InQueue(queue) \cup {r}
        /\ Distinct(Append(queue, r))
    BY <1>2, <2>2, Joins DEF Line
  <2>4. Line'
    <3>1. {q \in Request : pc'[q] = "queued"} = {q \in Request : pc[q] = "queued"} \cup {r}
      BY <1>5, <1>12
    <3>2. Len(queue') <= MaxQueue
      BY <1>2, <2>1, <2>3, ApiAssumption, LenProperties DEF Line
    <3> QED BY <1>2, <2>1, <2>3, <3>1, <3>2 DEF Line, At
  <2>5. Count'
    <3>1. Held' = Held
      BY <2>1 DEF Held
    <3>2. active = MaxConcurrent
      BY <1>2, <2>1, ApiAssumption DEF Count
    <3> QED BY <1>1, <1>2, <2>1, <3>1, <3>2 DEF Count
  <2>6. ASSUME NEW q \in Request PROVE RequestOK(q)'
    <3>1. CASE q = r
      <4>1. /\ pc'[r] = "queued" /\ permit'[r] = "none"
            /\ r \notin early' => client'[r] = "open" /\ r \notin listening'
        BY <1>1, <1>3, <1>5, <1>12, <2>1
      <4>2. RequestOK(r)'
        BY <4>1 DEF RequestOK, At
      <4> QED BY <3>1, <4>2
    <3>2. CASE q # r
      BY <1>1, <1>2, <1>5, <2>1, <3>2 DEF RequestOK, At
    <3> QED BY <3>1, <3>2
  <2> QED BY <1>7, <1>9, <2>4, <2>5, <2>6 DEF IInv
<1> QED BY <1>10, <1>11, <1>12

\* A request leaves the queue, from any place in it.
LEMMA QueueTimeoutStep ==
  ASSUME IInv, NEW r \in Request, QueueTimeout(r) PROVE IInv'
<1>1. /\ pc[r] = "queued" /\ pc' = [pc EXCEPT ![r] = "answering"]
      /\ UNCHANGED <<kind, server, accepting, active, client, permit, running, slot, budget, cancelledBy, aborted,
                     early, listening>>
  BY DEF QueueTimeout, At, GoTo, runVars
<1>2. Types /\ Line /\ Count /\ \A q \in Request : RequestOK(q)
  BY DEF IInv
<1>3. PICK i \in 1..Len(queue) : queue[i] = r /\ queue' = RemoveAt(queue, i)
  BY <1>2, LenProperties DEF QueueTimeout, Line
<1>4. /\ queue' \in Seq(Request) /\ Len(queue') = Len(queue) - 1
      /\ InQueue(queue') = InQueue(queue) \ {r}
      /\ Distinct(queue')
  BY <1>2, <1>3, TakenOut DEF Line
<1>5. pc'[r] = "answering" /\ \A q \in Request \ {r} : pc'[q] = pc[q]
  BY <1>1, <1>2 DEF Types
<1>6. Line'
  <2>1. {q \in Request : pc'[q] = "queued"} = {q \in Request : pc[q] = "queued"} \ {r}
    BY <1>5
  <2>2. Len(queue') <= MaxQueue
    BY <1>2, <1>4, ApiAssumption, LenProperties DEF Line
  <2> QED BY <1>2, <1>4, <2>1, <2>2 DEF Line, At
<1>7. Count'
  <2>1. Held' = Held
    BY <1>1 DEF Held
  <2>2. queue # <<>>
    BY <1>2, <1>3, EmptySeq DEF Line
  <2> QED BY <1>1, <1>2, <2>1, <2>2 DEF Count
<1>8. ASSUME NEW q \in Request PROVE RequestOK(q)'
  <2>1. CASE q = r
    <3>1. permit[r] = "none" /\ (r \notin early => r \notin listening)
      BY <1>1, <1>2 DEF RequestOK, Waiting, At
    <3> QED BY <1>1, <1>5, <2>1, <3>1 DEF RequestOK, Waiting, At
  <2>2. CASE q # r
    BY <1>1, <1>2, <1>5, <2>2 DEF RequestOK, At
  <2> QED BY <2>1, <2>2
<1>9. Types'
  BY <1>1, <1>2 DEF Types, Place
<1>10. RunInv'
  BY <1>1, <1>5, Places, RunsStand
<1> QED BY <1>6, <1>7, <1>8, <1>9, <1>10 DEF IInv

\* An answered request gives its permit back; to a client that is gone nothing is answered.
LEMMA AnswerStep ==
  ASSUME IInv, NEW r \in Request, Answer(r) PROVE IInv'
<1>1. /\ pc[r] = "answering"
      /\ UNCHANGED <<kind, server, accepting, client, running, slot, budget, cancelledBy, aborted,
                     early, listening>>
  BY DEF Answer, At, runVars
<1>2. Types /\ \A q \in Request : RequestOK(q)
  BY DEF IInv
<1>3. "done" \in Place /\ "done" \notin Waiting /\ "done" \notin AtWork /\ "done" \notin InRun
  BY DEF Place, Waiting, AtWork, InRun
<1>4. r \notin early => r \notin listening
  BY <1>1, <1>2 DEF RequestOK, At
<1>5. CASE client[r] = "open"
  <2>1. Release(r, "done")
    BY <1>5 DEF Answer
  <2>2. /\ Line' /\ Count'
        /\ pc' \in [Request -> Place] /\ permit' \in [Request -> {"none", "held", "released"}]
        /\ pc'[r] = "done" /\ permit'[r] # "held"
        /\ \A q \in Request \ {r} :
             \/ pc'[q] = pc[q] /\ permit'[q] = permit[q]
             \/ pc[q] = "queued" /\ pc'[q] = "entered" /\ permit'[q] = "held"
    BY <1>1, <1>3, <2>1, Releasing
  <2>3. ASSUME NEW q \in Request PROVE RequestOK(q)'
    <3>1. CASE q = r
      BY <1>1, <1>3, <1>4, <2>2, <3>1 DEF RequestOK, At
    <3>2. CASE q # r
      <4>1. CASE pc'[q] = pc[q] /\ permit'[q] = permit[q]
        BY <1>1, <1>2, <4>1 DEF RequestOK, At
      <4>2. CASE pc[q] = "queued" /\ pc'[q] = "entered" /\ permit'[q] = "held"
        BY <1>1, <1>2, <4>2, WokenOK
      <4> QED BY <2>2, <3>2, <4>1, <4>2
    <3> QED BY <3>1, <3>2
  <2>4. Types'
    BY <1>1, <1>2, <2>2 DEF Types
  <2>5. RunInv'
    <3>1. \A q \in Request : pc'[q] \in InRun <=> pc[q] \in InRun
      BY <1>1, <1>3, <2>2, Places
    <3> QED BY <1>1, <3>1, RunsStand
  <2> QED BY <2>2, <2>3, <2>4, <2>5 DEF IInv
<1>6. CASE client[r] # "open"
  <2>1. pc' = [pc EXCEPT ![r] = "done"] /\ UNCHANGED <<active, queue, permit>>
    BY <1>6 DEF Answer, GoTo
  <2>2. permit[r] # "held" \/ r \in early
    BY <1>2, <1>6 DEF RequestOK
  <2>3. Line' /\ Count' /\ \A q \in Request : RequestOK(q)'
    BY <1>1, <1>3, <2>1, <2>2, Moves
  <2>4. Types'
    BY <1>1, <1>2, <1>3, <2>1 DEF Types
  <2>5. RunInv'
    <3>1. pc'[r] = "done" /\ \A q \in Request \ {r} : pc'[q] = pc[q]
      BY <1>2, <2>1 DEF Types
    <3>2. \A q \in Request : pc'[q] \in InRun <=> pc[q] \in InRun
      BY <1>1, <1>3, <3>1, Places
    <3> QED BY <1>1, <3>2, RunsStand
  <2> QED BY <2>3, <2>4, <2>5 DEF IInv
<1> QED BY <1>5, <1>6

\* Who cancels a run: its own client, or one whose session is being looked up.
LEMMA OwnOrLookup ==
  ASSUME IInv, NEW r \in Request, Unsettled(r)
  PROVE  running[SessionOf[r]] = r \/ At(r, "lookup")
BY DEF IInv, RunInv, Unsettled, At

\* Whoever cancels, the others' runs are left alone.
LEMMA CancelledTypes ==
  ASSUME IInv, NEW sessions, NEW why \in {"own", "lookup", "budget", "shutdown"}
  PROVE  /\ Cancelled(sessions, why)
              \in [Request -> {"nobody", "own", "lookup", "budget", "shutdown", "other"}]
         /\ \A q \in Request : Cancelled(sessions, why)[q] # cancelledBy[q] =>
              Cancelled(sessions, why)[q] # "other"
<1>1. \A q \in Request : Cancelled(sessions, why)[q] \in {why, cancelledBy[q]}
  BY DEF Cancelled
<1> QED BY <1>1 DEF IInv, Types, Cancelled

\* A client that leaves before its request is admitted becomes early; of any other it is
\* noticed, and what the request holds goes back.
LEMMA CloseStep ==
  ASSUME IInv, NEW r \in Request, Close(r) PROVE IInv'
<1> DEFINE p == IF At(r, "subscribed") THEN "done" ELSE pc[r]
<1>1. /\ client[r] = "open" /\ pc[r] \in Waiting \cup AtWork \cup {"answering"}
      /\ pc[r] = "entered" => kind[r] # "subscription"
      /\ client' = [client EXCEPT ![r] = "closed"]
      /\ early' = IF pc[r] \in Waiting THEN early \cup {r} ELSE early
      /\ Release(r, p)
      /\ listening' = listening \ {r}
      /\ UNCHANGED <<kind, server, accepting, running, slot, budget>>
  BY DEF Close, At
<1>2. Types /\ \A q \in Request : RequestOK(q)
  BY DEF IInv
<1>3. /\ p \in Place /\ p \in {"done", pc[r]}
      /\ p = "queued" <=> pc[r] = "queued"
      /\ p \in InRun <=> pc[r] \in InRun
      /\ p = pc[r] \/ (p \notin {"new", "entered"} \cup Waiting)
  BY <1>2 DEF Types, At, Place, InRun, Waiting
<1> HIDE DEF p
<1>4. /\ Line' /\ Count'
      /\ pc' \in [Request -> Place] /\ permit' \in [Request -> {"none", "held", "released"}]
      /\ pc'[r] = p /\ permit'[r] # "held"
      /\ permit[r] = "none" => permit'[r] = "none"
      /\ \A q \in Request \ {r} :
           \/ pc'[q] = pc[q] /\ permit'[q] = permit[q]
           \/ pc[q] = "queued" /\ pc'[q] = "entered" /\ permit'[q] = "held"
  BY <1>1, <1>3, Releasing
<1>5. client'[r] = "closed" /\ \A q \in Request \ {r} : client'[q] = client[q]
  BY <1>1, <1>2 DEF Types
<1>6. ASSUME NEW q \in Request PROVE RequestOK(q)'
  <2>1. CASE q = r
    <3>1. pc'[r] \in {"new"} \cup Waiting => permit'[r] = "none"
      BY <1>2, <1>3, <1>4 DEF RequestOK
    <3>2. r \notin early' => pc'[r] \notin {"new"} \cup Waiting
      BY <1>1, <1>3, <1>4 DEF AtWork, Waiting
    <3>3. pc'[r] = "entered" => kind'[r] # "subscription"
      BY <1>1, <1>3, <1>4
    <3>4. r \notin listening' /\ permit'[r] # "held"
      BY <1>1, <1>4
    <3> QED BY <2>1, <3>1, <3>2, <3>3, <3>4 DEF RequestOK, At
  <2>2. CASE q # r
    <3>1. (q \in early' <=> q \in early) /\ (q \in listening' <=> q \in listening)
      BY <1>1, <2>2
    <3>2. CASE pc'[q] = pc[q] /\ permit'[q] = permit[q]
      BY <1>1, <1>2, <1>5, <2>2, <3>1, <3>2 DEF RequestOK, At
    <3>3. CASE pc[q] = "queued" /\ pc'[q] = "entered" /\ permit'[q] = "held"
      BY <1>1, <1>2, <1>5, <2>2, <3>1, <3>3, WokenOK
    <3> QED BY <1>4, <2>2, <3>2, <3>3
  <2> QED BY <2>1, <2>2
<1>7. /\ cancelledBy' \in [Request -> {"nobody", "own", "lookup", "budget", "shutdown", "other"}]
      /\ \A q \in Request : cancelledBy'[q] # cancelledBy[q] => cancelledBy'[q] # "other"
  <2>1. CASE Unsettled(r)
    <3>1. PICK why \in {"own", "lookup", "budget", "shutdown"} :
            cancelledBy' = Cancelled({SessionOf[r]}, why)
      BY <2>1, OwnOrLookup DEF Close
    <3> QED BY <3>1, CancelledTypes
  <2>2. CASE ~Unsettled(r)
    BY <1>2, <2>2 DEF Close, Types
  <2> QED BY <2>1, <2>2
<1>8. Types'
  <2>1. aborted' \subseteq Request
    BY <1>2 DEF Close, Aborted, Types
  <2> QED BY <1>1, <1>2, <1>4, <1>7, <2>1 DEF Types
<1>9. RunInv'
  <2>1. \A q \in Request : pc'[q] \in InRun <=> pc[q] \in InRun
    BY <1>3, <1>4, Places
  <2> QED BY <1>1, <1>7, <2>1, RunsStand
<1> QED BY <1>4, <1>6, <1>8, <1>9 DEF IInv

\* The shutdown turns away those who wait.
LEMMA ShutdownStep ==
  ASSUME IInv, Shutdown PROVE IInv'
<1>1. /\ server' = "draining" /\ accepting' = FALSE /\ queue' = <<>>
      /\ pc' = [r \in Request |-> IF pc[r] = "queued" THEN "answering" ELSE pc[r]]
      /\ UNCHANGED <<kind, active, client, permit, running, slot, budget, cancelledBy, aborted,
                     early, listening>>
  BY DEF Shutdown, At, runVars
<1>2. Types /\ Line /\ Count /\ \A q \in Request : RequestOK(q)
  BY DEF IInv
<1>3. \A q \in Request : \/ pc[q] # "queued" /\ pc'[q] = pc[q]
                         \/ pc[q] = "queued" /\ pc'[q] = "answering"
  BY <1>1
<1>4. Line'
  <2>1. {q \in Request : pc'[q] = "queued"} = {}
    BY <1>3
  <2>2. /\ <<>> \in Seq(Request) /\ Len(<<>>) = 0
        /\ InQueue(<<>>) = {} /\ Distinct(<<>>)
    BY EmptySeq DEF InQueue, Distinct
  <2> QED BY <1>1, <2>1, <2>2, ApiAssumption DEF Line, At
<1>5. Count'
  <2>1. Held' = Held
    BY <1>1 DEF Held
  <2> QED BY <1>1, <1>2, <2>1 DEF Count
<1>6. ASSUME NEW q \in Request PROVE RequestOK(q)'
  <2>1. CASE pc'[q] = pc[q]
    BY <1>1, <1>2, <2>1 DEF RequestOK, At
  <2>2. CASE pc[q] = "queued" /\ pc'[q] = "answering"
    <3>1. permit[q] = "none" /\ (q \notin early => q \notin listening)
      BY <1>2, <2>2 DEF RequestOK, Waiting, At
    <3> QED BY <1>1, <2>2, <3>1, Places DEF RequestOK, At, Waiting
  <2> QED BY <1>3, <2>1, <2>2
<1>7. Types'
  BY <1>1, <1>2 DEF Types, Place
<1>8. RunInv'
  BY <1>1, <1>3, Places, RunsStand
<1> QED BY <1>4, <1>5, <1>6, <1>7, <1>8 DEF IInv

\* Timers and the end of the process cancel runs and change nothing else of a request.
LEMMA OtherSteps ==
  ASSUME IInv, \/ \E r \in Request : BudgetFires(r)
               \/ ShutdownExpires \/ Closed \/ UNCHANGED vars
  PROVE  IInv'
<1>1. UNCHANGED <<kind, accepting, active, queue, pc, client, permit, running, slot, early, listening>>
  BY DEF BudgetFires, ShutdownExpires, Closed, vars, admissionVars, runVars
<1>2. Types /\ \A q \in Request : RequestOK(q)
  BY DEF IInv
<1>3. /\ cancelledBy' \in [Request -> {"nobody", "own", "lookup", "budget", "shutdown", "other"}]
      /\ \A q \in Request : cancelledBy'[q] # cancelledBy[q] => cancelledBy'[q] # "other"
  <2>1. CASE \E r \in Request : BudgetFires(r)
    <3>1. PICK r \in Request : cancelledBy' = Cancelled({SessionOf[r]}, "budget")
      BY <2>1 DEF BudgetFires
    <3> QED BY <3>1, CancelledTypes
  <2>2. CASE ShutdownExpires
    <3>1. cancelledBy' = Cancelled(Session, "shutdown")
      BY <2>2 DEF ShutdownExpires
    <3> QED BY <3>1, CancelledTypes
  <2>3. CASE Closed \/ UNCHANGED vars
    <3>1. cancelledBy' = cancelledBy
      BY <2>3 DEF Closed, vars, runVars
    <3> QED BY <1>2, <3>1 DEF Types
  <2> QED BY <2>1, <2>2, <2>3
<1>4. /\ server' \in {"up", "draining", "expired", "closed"}
      /\ budget' \in [Request -> {"off", "set", "fired", "missed"}]
  <2>1. ASSUME NEW r \in Request, BudgetFires(r)
        PROVE  /\ server' = server
               /\ \E b \in {"fired", "missed"} : budget' = [budget EXCEPT ![r] = b]
    BY <2>1 DEF BudgetFires, Fire
  <2>2. ShutdownExpires \/ Closed \/ UNCHANGED vars =>
          budget' = budget /\ server' \in {server, "expired", "closed"}
    BY DEF ShutdownExpires, Closed, vars, runVars
  <2> QED BY <1>2, <2>1, <2>2 DEF Types
<1>5. Types'
  <2>1. aborted' \subseteq Request
    BY <1>2 DEF BudgetFires, ShutdownExpires, Closed, vars, runVars, Aborted, Types
  <2> QED BY <1>1, <1>2, <1>3, <1>4, <2>1 DEF Types
<1>6. Line' /\ Count'
  BY <1>1, AdmissionStands DEF At
<1>7. \A q \in Request : RequestOK(q)'
  BY <1>1, <1>2 DEF RequestOK, At
<1>8. RunInv'
  BY <1>1, <1>3, RunsStand
<1> QED BY <1>5, <1>6, <1>7, <1>8 DEF IInv

\* Every step keeps the invariant.
LEMMA NextIInv == IInv /\ [Next]_vars => IInv'
BY ArriveStep, AuthenticateStep, QueueTimeoutStep, AnswerStep, HandlerStep, BeginStep, RunStep,
   SettleStep, CloseStep, ShutdownStep, OtherSteps DEF Next

\* The invariant holds at first.
LEMMA InitIInv == Init => IInv
<1> SUFFICES ASSUME Init PROVE IInv
  OBVIOUS
<1>1. Types
  BY DEF Init, Types, Place
<1>2. Line
  <2>1. /\ <<>> \in Seq(Request) /\ Len(<<>>) = 0
        /\ InQueue(<<>>) = {} /\ Distinct(<<>>)
    BY EmptySeq DEF InQueue, Distinct
  <2>2. {r \in Request : At(r, "queued")} = {}
    BY DEF Init, At
  <2> QED BY <2>1, <2>2, ApiAssumption DEF Init, Line
<1>3. Count
  <2>1. Held = {}
    BY DEF Init, Held
  <2> QED BY <2>1, FS_EmptySet, ApiAssumption DEF Init, Count
<1>4. \A r \in Request : RequestOK(r)
  BY DEF Init, RequestOK, Waiting, At
<1>5. RunInv
  BY ApiAssumption DEF Init, RunInv, InRun
<1> QED BY <1>1, <1>2, <1>3, <1>4, <1>5 DEF IInv

------------------------------------------------------------------------------
(* The theorems.                                                           *)

\* The inductive invariant holds in every reachable state.
THEOREM Invariance == Spec => []IInv
BY InitIInv, NextIInv, PTL DEF Spec

\* Every variable keeps its type, and the queue is bounded and holds who waits in it.
THEOREM TypeCorrect == Spec => []TypeOK
<1>1. IInv => TypeOK
  BY DEF IInv, Types, Line, Count, TypeOK, Place, InQueue
<1> QED BY <1>1, Invariance, PTL

\* The count of the admission controller is that of its permits, nobody waits while there is
\* room, and what an admitted request holds goes back when its client leaves, whatever
\* disconnects, times out or shuts down between which awaits (app.ts, admission-control.ts).
THEOREM CapacityIsAccounted == Spec => []CapacityAccounted
<1>1. IInv => CapacityAccounted
  BY DEF IInv, Count, Held, RequestOK, CapacityAccounted
<1> QED BY <1>1, Invariance, PTL

\* One request runs in a session at a time, the session's events go to it alone, and nobody
\* cancels it but its client, its budget, the shutdown or a lookup (service.ts).
THEOREM RunsStayApart == Spec => []RunsApart
<1>1. ASSUME IInv PROVE RunsApart
  <2>1. Types /\ RunInv
    BY <1>1 DEF IInv
  <2>2. ASSUME NEW s \in Session
        PROVE  {r \in Request : SessionOf[r] = s /\ pc[r] \in InRun} =
               IF running[s] = None THEN {} ELSE {running[s]}
    <3>1. \A r \in Request : SessionOf[r] = s /\ pc[r] \in InRun => running[s] = r
      BY <2>1 DEF RunInv
    <3>2. CASE running[s] = None
      BY <3>1, <3>2, ApiAssumption
    <3>3. CASE running[s] # None
      <4>1. running[s] \in Request /\ SessionOf[running[s]] = s /\ pc[running[s]] \in InRun
        BY <2>1, <3>3 DEF RunInv, Types
      <4> QED BY <3>1, <3>3, <4>1
    <3> QED BY <3>2, <3>3
  <2> QED BY <2>1, <2>2 DEF RunsApart, RunInv
<1> QED BY <1>1, Invariance, PTL
=============================================================================
