-------------------------- MODULE NvmeQueueProof --------------------------
(***************************************************************************)
(* The safety properties of NvmeQueue for every number of tasks, every     *)
(* queue size and every number of command ids.                             *)
(*                                                                         *)
(* The indices of a ring are compared by how far they are ahead of one of  *)
(* them: Dist(i, j) is the number of steps from i to j.                    *)
(***************************************************************************)
EXTENDS NvmeQueue, TLAPS, WellFoundedInduction, FiniteSetTheorems

-----------------------------------------------------------------------------
(* Natural numbers.                                                        *)

\* A set of natural numbers that is not empty has a least element: what the
\* searches for the first free id and the first matching entry rely on.
LEMMA LeastNatural ==
    ASSUME NEW T \in SUBSET Nat, T # {}
    PROVE  \E x \in T : \A y \in T : x <= y
<1>1. \E x \in T : \A y \in T : <<y, x>> \notin OpToRel(<, Nat)
    BY NatLessThanWellFounded, WFMin
<1>2. \A x, y \in Nat : y < x => <<y, x>> \in OpToRel(<, Nat)
    BY DEF OpToRel
<1>3. PICK R : /\ \E x \in T : \A y \in T : <<y, x>> \notin R
               /\ \A x, y \in Nat : y < x => <<y, x>> \in R
    BY <1>1, <1>2, Zenon
<1>4. PICK x \in T : \A y \in T : <<y, x>> \notin R
    BY <1>3
<1>5. ASSUME NEW y \in T PROVE x <= y
  <2>1. x \in Nat /\ y \in Nat /\ ~(y < x)
    BY <1>3, <1>4
  <2> QED
    BY <2>1
<1> QED
    BY <1>5

Dist(i, j) == (j - i) % QUEUE_SIZE

Pending  == Window(fetch_head, iosq_tail)  \* submitted, not fetched
Answered == Window(iocq_head, post_tail)   \* posted, not consumed

InHands == {"bell", "await"} \* a task here owns its command_id
OnCpu   == {"bell", "spin"}  \* a task here has not yielded

\* Submission ring: head, fetched, rung and tail follow each other.
SubmissionOrder ==
    /\ Dist(iosq_head, fetch_head) <= Dist(iosq_head, sq_doorbell)
    /\ Dist(iosq_head, sq_doorbell) <= Dist(iosq_head, iosq_tail)

\* Completion ring: acknowledged, consumed and posted follow each other.
CompletionOrder == Dist(cq_doorbell, iocq_head) <= Dist(cq_doorbell, post_tail)

\* The heads that waiting completions report lie between the head the driver
\* knows and what the device has fetched, in the order of the completions.
HeadsReported ==
    /\ \A i \in Answered :
          Dist(iosq_head, iocq[i].sq_head) <= Dist(iosq_head, fetch_head)
    /\ \A i, j \in Answered :
          Dist(iocq_head, i) <= Dist(iocq_head, j) =>
              Dist(iosq_head, iocq[i].sq_head) <= Dist(iosq_head, iocq[j].sq_head)

\* The phase of an entry the handler still has to consume, were it at i.
NewPhase(i) == IF i >= iocq_head THEN 1 - iocq_phase ELSE iocq_phase

\* The phase bits tell the entries that wait from all others.
PhasesTell ==
    /\ \A i \in Idx : iocq[i].phase = IF i \in Answered THEN NewPhase(i) ELSE 1 - NewPhase(i)
    /\ post_phase = NewPhase(post_tail)

\* One task at most has the CPU, and one that spins has seen room in the queue.
CpuExclusive ==
    /\ \A p, q \in Tasks : pc[p] \in OnCpu /\ pc[q] \in OnCpu => p = q
    /\ \A p \in Tasks : pc[p] = "spin" => ~SqFull

\* Whatever is in a queue or with the device is in flight, and there once.
PlacesDisjoint ==
    /\ \A i \in Pending : /\ command_statuses[iosq[i]] = "IN_FLIGHT"
                          /\ iosq[i] \notin executing
    /\ \A i, j \in Pending : iosq[i] = iosq[j] => i = j
    /\ \A c \in executing : command_statuses[c] = "IN_FLIGHT"
    /\ \A i \in Answered : /\ command_statuses[iocq[i].cid] = "IN_FLIGHT"
                           /\ iocq[i].cid \notin executing
    /\ \A i, j \in Answered : iocq[i].cid = iocq[j].cid => i = j
    /\ \A i \in Pending, j \in Answered : iosq[i] # iocq[j].cid

\* Whatever is in flight is somewhere.
NothingLost ==
    \A c \in Cids :
        command_statuses[c] = "IN_FLIGHT" =>
            \/ \E i \in Pending : iosq[i] = c
            \/ c \in executing
            \/ \E i \in Answered : iocq[i].cid = c

\* A task's command id is taken.
OwnersTake == \A p \in Tasks : pc[p] \in InHands => command_statuses[command_id[p]] # "FREE"

\* What is marked finished, or waits to be, has been answered.
AnswersPrecede ==
    /\ \A c \in Cids : command_statuses[c] = "COMPLETED" => answer[c] # "none"
    /\ \A i \in Answered : answer[iocq[i].cid] # "none"

IInv ==
    /\ TypeOK
    /\ SubmissionOrder /\ CompletionOrder
    /\ HeadsReported /\ PhasesTell
    /\ CpuExclusive
    /\ PlacesDisjoint /\ NothingLost
    /\ OwnersTake /\ CommandIdsUnshared
    /\ AnswersPrecede

-----------------------------------------------------------------------------
(* The arithmetic of the rings.                                            *)

\* The remainder of a difference of two indices, without a division.
LEMMA DistValue ==
    ASSUME NEW i \in Idx, NEW j \in Idx
    PROVE  Dist(i, j) = IF j >= i THEN j - i ELSE j - i + QUEUE_SIZE
<1>1. CASE j >= i
    BY <1>1, SizesAssumption DEF Idx, Dist
<1>2. CASE j < i
  <2>1. (j - i) % QUEUE_SIZE = j - i + QUEUE_SIZE
    BY <1>2, SizesAssumption DEF Idx
  <2> QED
    BY <1>2, <2>1 DEF Idx, Dist
<1> QED
    BY <1>1, <1>2 DEF Idx

\* The next index, without a division.
LEMMA SuccValue ==
    ASSUME NEW i \in Idx
    PROVE  /\ Succ(i) = IF i + 1 = QUEUE_SIZE THEN 0 ELSE i + 1
           /\ Succ(i) \in Idx
    BY SizesAssumption DEF Idx, Succ

\* A distance is an index, and zero only from an index to itself.
LEMMA DistRange ==
    ASSUME NEW i \in Idx, NEW j \in Idx
    PROVE  /\ Dist(i, j) \in Int /\ 0 <= Dist(i, j) /\ Dist(i, j) < QUEUE_SIZE
           /\ Dist(i, j) = 0 <=> i = j
    BY DistValue, SizesAssumption DEF Idx

\* Moving the far end: one step further, unless the ring closes.
LEMMA DistFarEnd ==
    ASSUME NEW i \in Idx, NEW j \in Idx
    PROVE  /\ Succ(j) # i => Dist(i, Succ(j)) = Dist(i, j) + 1
           /\ Succ(j) # i <=> Dist(i, j) < QUEUE_SIZE - 1
<1>1. Dist(i, j) = IF j >= i THEN j - i ELSE j - i + QUEUE_SIZE
    BY DistValue
<1>2. /\ Succ(j) = IF j + 1 = QUEUE_SIZE THEN 0 ELSE j + 1
      /\ Succ(j) \in Idx
    BY SuccValue
<1>3. Dist(i, Succ(j)) = IF Succ(j) >= i THEN Succ(j) - i ELSE Succ(j) - i + QUEUE_SIZE
    BY <1>2, DistValue
<1> QED
    BY <1>1, <1>2, <1>3, SizesAssumption DEF Idx

\* Moving the near end: one step nearer, unless they meet.
LEMMA DistNearEnd ==
    ASSUME NEW i \in Idx, NEW j \in Idx, i # j
    PROVE  Dist(Succ(i), j) = Dist(i, j) - 1
<1>1. Dist(i, j) = IF j >= i THEN j - i ELSE j - i + QUEUE_SIZE
    BY DistValue
<1>2. /\ Succ(i) = IF i + 1 = QUEUE_SIZE THEN 0 ELSE i + 1
      /\ Succ(i) \in Idx
    BY SuccValue
<1>3. Dist(Succ(i), j) = IF j >= Succ(i) THEN j - Succ(i) ELSE j - Succ(i) + QUEUE_SIZE
    BY <1>2, DistValue
<1> QED
    BY <1>1, <1>2, <1>3, SizesAssumption DEF Idx

\* Distances along a ring add up.
LEMMA DistAdds ==
    ASSUME NEW h \in Idx, NEW i \in Idx, NEW j \in Idx, Dist(h, i) <= Dist(h, j)
    PROVE  Dist(i, j) = Dist(h, j) - Dist(h, i)
    BY DistValue, SizesAssumption DEF Idx

\* A window, by distances.
LEMMA WindowByDist ==
    ASSUME NEW i \in Idx, NEW j \in Idx
    PROVE  Window(i, j) = {k \in Idx : Dist(i, k) < Dist(i, j)}
    BY DEF Window, Dist

\* Filling the entry at the end of a window that does not close the ring.
LEMMA WindowGrows ==
    ASSUME NEW i \in Idx, NEW j \in Idx, Succ(j) # i
    PROVE  Window(i, Succ(j)) = Window(i, j) \cup {j} /\ j \notin Window(i, j)
<1>1. Dist(i, Succ(j)) = Dist(i, j) + 1 /\ Succ(j) \in Idx /\ Dist(i, j) \in Int
    BY DistFarEnd, SuccValue, DistRange
<1>2. ASSUME NEW k \in Idx
      PROVE  Dist(i, k) < Dist(i, j) + 1 <=> Dist(i, k) < Dist(i, j) \/ k = j
  <2>1. /\ Dist(i, j) = IF j >= i THEN j - i ELSE j - i + QUEUE_SIZE
        /\ Dist(i, k) = IF k >= i THEN k - i ELSE k - i + QUEUE_SIZE
    BY DistValue
  <2> QED
    BY <2>1, SizesAssumption DEF Idx
<1>3. /\ Window(i, Succ(j)) = {k \in Idx : Dist(i, k) < Dist(i, j) + 1}
      /\ Window(i, j) = {k \in Idx : Dist(i, k) < Dist(i, j)}
    BY <1>1, WindowByDist
<1> QED
    BY <1>1, <1>2, <1>3

\* Taking the entry at the start of a window that is not empty.
LEMMA WindowShrinks ==
    ASSUME NEW i \in Idx, NEW j \in Idx, i # j
    PROVE  Window(Succ(i), j) = Window(i, j) \ {i} /\ i \in Window(i, j)
<1>1. Dist(Succ(i), j) = Dist(i, j) - 1 /\ Succ(i) \in Idx
    BY DistNearEnd, SuccValue
<1>2. Dist(i, i) = 0 /\ Dist(i, j) > 0 /\ Dist(i, j) \in Int
    BY DistRange
<1>3. ASSUME NEW k \in Idx
      PROVE  Dist(Succ(i), k) < Dist(i, j) - 1 <=> Dist(i, k) < Dist(i, j) /\ k # i
  <2>1. CASE k = i
    <3>1. Dist(Succ(i), i) = QUEUE_SIZE - 1
      <4>1. Succ(i) # Succ(i) <=> Dist(Succ(i), i) < QUEUE_SIZE - 1
        BY <1>1, DistFarEnd
      <4>2. Dist(Succ(i), i) \in Int /\ Dist(Succ(i), i) < QUEUE_SIZE
        BY <1>1, DistRange
      <4> QED
        BY <4>1, <4>2, SizesAssumption
    <3> QED
      BY <2>1, <3>1, DistRange, SizesAssumption
  <2>2. CASE k # i
    BY <1>2, <2>2, DistNearEnd, DistRange
  <2> QED
    BY <2>1, <2>2
<1>4. /\ Window(Succ(i), j) = {k \in Idx : Dist(Succ(i), k) < Dist(i, j) - 1}
      /\ Window(i, j) = {k \in Idx : Dist(i, k) < Dist(i, j)}
    BY <1>1, WindowByDist
<1> QED
    BY <1>2, <1>3, <1>4

-----------------------------------------------------------------------------
(* The invariant.                                                          *)

\* What the types say of single indices and entries.
LEMMA Typed ==
    ASSUME TypeOK
    PROVE  /\ iosq_tail \in Idx /\ iosq_head \in Idx /\ iocq_head \in Idx
           /\ sq_doorbell \in Idx /\ cq_doorbell \in Idx
           /\ fetch_head \in Idx /\ post_tail \in Idx
           /\ \A i \in Idx : /\ iosq[i] \in Cids
                             /\ iocq[i].phase \in {0, 1} /\ iocq[i].cid \in Cids
                             /\ iocq[i].sq_head \in Idx
           /\ Pending \subseteq Idx /\ Answered \subseteq Idx
    BY DEF TypeOK, Entry, Pending, Answered, Window

\* The queues nvme_probe_2 sets up satisfy the invariant.
LEMMA InitEstablishes == Init => IInv
<1> SUFFICES ASSUME Init PROVE IInv
    OBVIOUS
<1>1. 0 \in Idx /\ 0 \in Cids /\ QUEUE_SIZE \in Nat
    BY SizesAssumption DEF Idx, Cids
<1>2. TypeOK
  <2>1. [phase |-> 0, cid |-> 0, sq_head |-> 0, status |-> "ok"] \in Entry
    BY <1>1, SizesAssumption DEF Entry
  <2> QED
    BY <1>1, <2>1 DEF Init, TypeOK
<1>3. Dist(0, 0) = 0 /\ Window(0, 0) = {}
  <2>1. \A k \in Idx : Dist(0, k) >= 0
    BY <1>1, DistRange
  <2>2. Dist(0, 0) = 0
    BY <1>1, DistRange
  <2>3. Window(0, 0) = {k \in Idx : Dist(0, k) < Dist(0, 0)}
    BY <1>1, WindowByDist
  <2>4. \A k \in Idx : ~(Dist(0, k) < 0)
    BY <1>1, DistRange
  <2> QED
    BY <2>2, <2>3, <2>4
<1>4. Pending = {} /\ Answered = {}
    BY <1>3 DEF Init, Pending, Answered
<1>5. SubmissionOrder /\ CompletionOrder /\ HeadsReported
    BY <1>3, <1>4 DEF Init, SubmissionOrder, CompletionOrder, HeadsReported
<1>6. PhasesTell
    BY <1>4 DEF Init, PhasesTell, NewPhase, Idx
<1>7. CpuExclusive /\ PlacesDisjoint /\ NothingLost
    BY <1>4 DEF Init, CpuExclusive, OnCpu, PlacesDisjoint, NothingLost
<1>8. OwnersTake /\ CommandIdsUnshared /\ AnswersPrecede
    BY <1>4 DEF Init, OwnersTake, InHands, CommandIdsUnshared, AnswersPrecede
<1> QED
    BY <1>2, <1>5, <1>6, <1>7, <1>8 DEF IInv

ringVars == <<iosq, iosq_tail, iosq_head, iocq, iocq_head, iocq_phase, sq_doorbell, cq_doorbell,
              fetch_head, post_tail, post_phase>>

\* A step that leaves the queues and their indices alone leaves their order alone.
LEMMA RingsUntouched ==
    ASSUME IInv, UNCHANGED ringVars
    PROVE  /\ (SubmissionOrder /\ CompletionOrder /\ HeadsReported /\ PhasesTell)'
           /\ Pending' = Pending /\ Answered' = Answered
<1> USE DEF ringVars
<1>1. Pending' = Pending /\ Answered' = Answered
    BY DEF Pending, Answered, Window
<1>2. SubmissionOrder' /\ CompletionOrder'
    BY DEF IInv, SubmissionOrder, CompletionOrder, Dist
<1>3. HeadsReported'
    BY <1>1 DEF IInv, HeadsReported, Dist
<1>4. PhasesTell'
    BY <1>1 DEF IInv, PhasesTell, NewPhase
<1> QED
    BY <1>1, <1>2, <1>3, <1>4

\* A step that also leaves the commands alone leaves their places alone.
LEMMA CommandsUntouched ==
    ASSUME IInv, UNCHANGED <<ringVars, command_statuses, executing, answer>>
    PROVE  (PlacesDisjoint /\ NothingLost /\ AnswersPrecede)'
<1>1. Pending' = Pending /\ Answered' = Answered
    BY RingsUntouched
<1>2. PlacesDisjoint'
    BY <1>1 DEF IInv, PlacesDisjoint, ringVars
<1>3. NothingLost' /\ AnswersPrecede'
    BY <1>1 DEF IInv, NothingLost, AnswersPrecede, ringVars
<1> QED
    BY <1>2, <1>3

\* A task waits for room in the queue, or spins for a command id.
LEMMA WaitPreserves ==
    ASSUME IInv, NEW p \in Tasks, HasCpu(p),
           pc' = [pc EXCEPT ![p] = "full"] \/ (pc' = [pc EXCEPT ![p] = "spin"] /\ (~SqFull \/ pc[p] = "spin")),
           UNCHANGED <<ringVars, command_statuses, executing, answer, command_id, saved_head,
                       isr, bell_needed>>
    PROVE  IInv'
<1>1. TypeOK
    BY DEF IInv
<1>2. TypeOK'
    BY <1>1 DEF TypeOK, ringVars
<1>3. /\ pc'[p] \in {"full", "spin"} /\ (pc'[p] = "spin" => ~SqFull)
      /\ \A q \in Tasks \ {p} : pc'[q] = pc[q] /\ pc[q] \notin OnCpu
    BY <1>1 DEF IInv, CpuExclusive, TypeOK, HasCpu, OnCpu
<1>4. SqFull' <=> SqFull
    BY DEF SqFull, Succ, ringVars
<1>5. CpuExclusive'
    BY <1>3, <1>4 DEF CpuExclusive, OnCpu
<1>6. OwnersTake' /\ CommandIdsUnshared'
    BY <1>3 DEF IInv, OwnersTake, CommandIdsUnshared, InHands
<1> QED
    BY <1>2, <1>5, <1>6, RingsUntouched, CommandsUntouched DEF IInv

\* start_command finds an id when one is free.
LEMMA FreeCidFound ==
    ASSUME FreeCids # {}
    PROVE  (CHOOSE c \in FreeCids : \A d \in FreeCids : c <= d) \in FreeCids
<1>1. FreeCids \in SUBSET Nat
    BY SizesAssumption DEF FreeCids, Cids
<1>2. \E c \in FreeCids : \A d \in FreeCids : c <= d
    BY <1>1, LeastNatural
<1> QED
    BY <1>2

\* A command enters the submission queue: its id was free, so it was nowhere,
\* and there is room, so no entry the device has not fetched is overwritten.
LEMMA EnqueuePreserves ==
    ASSUME IInv, NEW p \in Tasks, HasCpu(p), ~SqFull \/ pc[p] = "spin", FreeCids # {},
           Enqueue(p), pc' = [pc EXCEPT ![p] = "bell"],
           UNCHANGED <<iosq_head, iocq, iocq_head, iocq_phase, saved_head, isr, bell_needed,
                       sq_doorbell, cq_doorbell, fetch_head, executing, post_tail, post_phase,
                       answer>>
    PROVE  IInv'
<1>1. TypeOK /\ ~SqFull
    BY DEF IInv, CpuExclusive
<1>2. PICK c \in Cids :
        /\ command_statuses[c] = "FREE"
        /\ command_statuses' = [command_statuses EXCEPT ![c] = "IN_FLIGHT"]
        /\ command_id' = [command_id EXCEPT ![p] = c]
        /\ iosq' = [iosq EXCEPT ![iosq_tail] = c]
        /\ iosq_tail' = Succ(iosq_tail)
    BY FreeCidFound DEF Enqueue, FreeCids
<1>3. /\ iosq_tail \in Idx /\ iosq_head \in Idx /\ iocq_head \in Idx
      /\ sq_doorbell \in Idx /\ fetch_head \in Idx /\ post_tail \in Idx
      /\ Pending \subseteq Idx /\ Answered \subseteq Idx
      /\ \A i \in Idx : iosq[i] \in Cids /\ iocq[i].cid \in Cids
    BY <1>1, Typed
<1>4. TypeOK'
  <2>1. /\ command_statuses' \in [Cids -> {"FREE", "IN_FLIGHT", "COMPLETED"}]
        /\ iosq' \in [Idx -> Cids] /\ command_id' \in [Tasks -> Cids]
        /\ pc' \in [Tasks -> {"idle", "full", "spin", "bell", "await", "dead"}]
    BY <1>1, <1>2 DEF TypeOK
  <2>2. iosq_tail' \in Idx
    BY <1>2, <1>3, SuccValue
  <2> QED
    BY <1>1, <2>1, <2>2 DEF TypeOK
<1>5. Succ(iosq_tail) # iosq_head /\ Succ(iosq_tail) \in Idx
    BY <1>1, <1>3, SuccValue DEF SqFull
<1>6. SubmissionOrder'
  <2>1. Dist(iosq_head, iosq_tail') = Dist(iosq_head, iosq_tail) + 1
    BY <1>2, <1>3, <1>5, DistFarEnd
  <2>2. /\ Dist(iosq_head, iosq_tail) \in Int /\ Dist(iosq_head, sq_doorbell) \in Int
    BY <1>3, DistRange
  <2>3. Dist(iosq_head, sq_doorbell) <= Dist(iosq_head, iosq_tail')
    BY <2>1, <2>2 DEF IInv, SubmissionOrder
  <2> QED
    BY <2>3 DEF IInv, SubmissionOrder, Dist
<1>7. Succ(iosq_tail) # fetch_head
  <2>1. Dist(iosq_head, iosq_tail) < QUEUE_SIZE - 1
    BY <1>3, <1>5, DistFarEnd
  <2>2. /\ Dist(iosq_head, iosq_tail) \in Int /\ Dist(iosq_head, sq_doorbell) \in Int
        /\ Dist(iosq_head, fetch_head) \in Int /\ 0 <= Dist(iosq_head, fetch_head)
    BY <1>3, DistRange
  <2>3. Dist(iosq_head, fetch_head) <= Dist(iosq_head, iosq_tail)
    BY <2>2 DEF IInv, SubmissionOrder
  <2>4. Dist(fetch_head, iosq_tail) = Dist(iosq_head, iosq_tail) - Dist(iosq_head, fetch_head)
    BY <1>3, <2>3, DistAdds
  <2>5. Dist(fetch_head, iosq_tail) < QUEUE_SIZE - 1
    BY <2>1, <2>2, <2>4, SizesAssumption
  <2> QED
    BY <1>3, <2>5, DistFarEnd
<1>8. Pending' = Pending \cup {iosq_tail} /\ iosq_tail \notin Pending
    BY <1>2, <1>3, <1>7, WindowGrows DEF Pending, Window
<1>9. Answered' = Answered
    BY DEF Answered, Window
<1>10. CompletionOrder'
    BY DEF IInv, CompletionOrder, Dist
<1>11. HeadsReported'
    BY <1>9 DEF IInv, HeadsReported, Dist
<1>12. PhasesTell'
    BY <1>9 DEF IInv, PhasesTell, NewPhase
<1>13. /\ iosq'[iosq_tail] = c /\ \A i \in Pending : iosq'[i] = iosq[i]
       /\ command_statuses'[c] = "IN_FLIGHT"
       /\ \A d \in Cids : d # c => command_statuses'[d] = command_statuses[d]
    BY <1>1, <1>2, <1>3, <1>8 DEF TypeOK
<1>14. /\ \A i \in Pending : iosq[i] # c
       /\ c \notin executing
       /\ \A i \in Answered : iocq[i].cid # c
    BY <1>2 DEF IInv, PlacesDisjoint
<1>15. PlacesDisjoint'
  <2>1. executing \subseteq Cids
    BY <1>1 DEF TypeOK
  <2>2. \A i \in Pending' : command_statuses'[iosq'[i]] = "IN_FLIGHT" /\ iosq'[i] \notin executing
    BY <1>3, <1>8, <1>13, <1>14 DEF IInv, PlacesDisjoint
  <2>3. \A i, j \in Pending' : iosq'[i] = iosq'[j] => i = j
    BY <1>8, <1>13, <1>14 DEF IInv, PlacesDisjoint
  <2>4. \A d \in executing : command_statuses'[d] = "IN_FLIGHT"
    BY <1>13, <2>1 DEF IInv, PlacesDisjoint
  <2>5. \A i \in Answered : command_statuses'[iocq[i].cid] = "IN_FLIGHT"
    BY <1>3, <1>13, <1>14 DEF IInv, PlacesDisjoint
  <2>6. \A i \in Pending', j \in Answered : iosq'[i] # iocq[j].cid
    BY <1>8, <1>13, <1>14 DEF IInv, PlacesDisjoint
  <2> QED
    BY <1>9, <2>2, <2>3, <2>4, <2>5, <2>6 DEF IInv, PlacesDisjoint
<1>16. NothingLost'
  <2> SUFFICES ASSUME NEW d \in Cids, command_statuses'[d] = "IN_FLIGHT"
               PROVE  \/ \E i \in Pending' : iosq'[i] = d
                      \/ d \in executing
                      \/ \E i \in Answered : iocq[i].cid = d
    BY <1>9 DEF NothingLost
  <2> QED
    BY <1>8, <1>13 DEF IInv, NothingLost
<1>17. CpuExclusive'
    BY <1>1 DEF CpuExclusive, OnCpu, TypeOK, HasCpu
<1>18. /\ command_id'[p] = c
       /\ \A q \in Tasks \ {p} : command_id'[q] = command_id[q] /\ pc'[q] = pc[q]
       /\ \A q \in Tasks : command_id[q] \in Cids
    BY <1>1, <1>2 DEF TypeOK
<1>19. OwnersTake'
    BY <1>13, <1>18 DEF IInv, OwnersTake
<1>20. CommandIdsUnshared'
    BY <1>2, <1>18 DEF IInv, OwnersTake, CommandIdsUnshared, InHands
<1>21. AnswersPrecede'
    BY <1>9, <1>13 DEF IInv, AnswersPrecede
<1> QED
    BY <1>4, <1>6, <1>10, <1>11, <1>12, <1>15, <1>16, <1>17, <1>19, <1>20, <1>21 DEF IInv

\* The tail doorbell: everything submitted so far may be fetched.
LEMMA RingDoorbellPreserves ==
    ASSUME IInv, NEW p \in Tasks, RingDoorbell(p)
    PROVE  IInv'
<1>1. TypeOK /\ pc[p] = "bell" /\ HasCpu(p)
    BY DEF IInv, RingDoorbell
<1>2. /\ saved_head' = [saved_head EXCEPT ![p] = iocq_head]
      /\ sq_doorbell' = iosq_tail
      /\ pc' = [pc EXCEPT ![p] = "await"]
      /\ UNCHANGED <<command_statuses, iosq, iosq_tail, iosq_head, iocq, iocq_head, iocq_phase,
                     command_id, isr, bell_needed, cq_doorbell, fetch_head, executing,
                     post_tail, post_phase, answer>>
    BY DEF RingDoorbell
<1>3. TypeOK'
    BY <1>1, <1>2 DEF TypeOK
<1>4. SubmissionOrder'
  <2>1. /\ Dist(iosq_head, iosq_tail) \in Int /\ Dist(iosq_head, sq_doorbell) \in Int
        /\ Dist(iosq_head, fetch_head) \in Int
    BY <1>1, Typed, DistRange
  <2>2. Dist(iosq_head, fetch_head) <= Dist(iosq_head, iosq_tail)
    BY <2>1 DEF IInv, SubmissionOrder
  <2> QED
    BY <1>2, <2>1, <2>2 DEF SubmissionOrder, Dist
<1>5. Pending' = Pending /\ Answered' = Answered
    BY <1>2 DEF Pending, Answered, Window
<1>6. CompletionOrder'
    BY <1>2 DEF IInv, CompletionOrder, Dist
<1>7. HeadsReported'
    BY <1>2, <1>5 DEF IInv, HeadsReported, Dist
<1>8. PhasesTell'
    BY <1>2, <1>5 DEF IInv, PhasesTell, NewPhase
<1>9. PlacesDisjoint'
    BY <1>2, <1>5 DEF IInv, PlacesDisjoint
<1>10. NothingLost' /\ AnswersPrecede'
    BY <1>2, <1>5 DEF IInv, NothingLost, AnswersPrecede
<1>11. /\ pc'[p] = "await"
       /\ \A q \in Tasks \ {p} : pc'[q] = pc[q] /\ pc[q] \notin OnCpu
    BY <1>1, <1>2 DEF TypeOK, HasCpu, OnCpu
<1>12. CpuExclusive'
    BY <1>11 DEF CpuExclusive, OnCpu
<1>13. OwnersTake' /\ CommandIdsUnshared'
    BY <1>1, <1>2, <1>11 DEF IInv, OwnersTake, CommandIdsUnshared, InHands
<1> QED
    BY <1>3, <1>4, <1>6, <1>7, <1>8, <1>9, <1>10, <1>12, <1>13 DEF IInv

\* A task gets its page: its id is free again, and no queue mentions it.
LEMMA FinishPreserves ==
    ASSUME IInv, NEW p \in Tasks, Finish(p)
    PROVE  IInv'
<1> DEFINE c == command_id[p]
<1>1. TypeOK /\ pc[p] = "await" /\ HasCpu(p) /\ command_statuses[c] # "IN_FLIGHT"
    BY DEF IInv, Finish
<1>2. /\ command_statuses' = [command_statuses EXCEPT ![c] = "FREE"]
      /\ pc' = [pc EXCEPT ![p] = "idle"]
      /\ command_id' = [command_id EXCEPT ![p] = 0]
      /\ saved_head' = [saved_head EXCEPT ![p] = 0]
      /\ answer' = [answer EXCEPT ![c] = "none"]
      /\ UNCHANGED <<iosq, iosq_tail, iosq_head, iocq, iocq_head, iocq_phase, isr, bell_needed,
                     sq_doorbell, cq_doorbell, fetch_head, executing, post_tail, post_phase>>
    BY DEF Finish
<1>3. UNCHANGED ringVars /\ UNCHANGED executing
    BY <1>2 DEF ringVars
<1>4. /\ (SubmissionOrder /\ CompletionOrder /\ HeadsReported /\ PhasesTell)'
      /\ Pending' = Pending /\ Answered' = Answered
    BY <1>3, RingsUntouched
<1>5. 0 \in Idx /\ 0 \in Cids /\ c \in Cids
    BY <1>1, SizesAssumption DEF Idx, Cids, TypeOK
<1>6. TypeOK'
  <2>1. /\ command_statuses' \in [Cids -> {"FREE", "IN_FLIGHT", "COMPLETED"}]
        /\ pc' \in [Tasks -> {"idle", "full", "spin", "bell", "await", "dead"}]
        /\ answer' \in [Cids -> Statuses \cup {"none"}]
    BY <1>1, <1>2, <1>5 DEF TypeOK
  <2>2. command_id' \in [Tasks -> Cids] /\ saved_head' \in [Tasks -> Idx]
    BY <1>1, <1>2, <1>5 DEF TypeOK
  <2> QED
    BY <1>1, <1>2, <2>1, <2>2 DEF TypeOK
<1>7. /\ command_statuses'[c] = "FREE"
      /\ \A d \in Cids : d # c => command_statuses'[d] = command_statuses[d] /\ answer'[d] = answer[d]
    BY <1>1, <1>2, <1>5 DEF TypeOK
<1>8. /\ \A i \in Pending : iosq[i] # c /\ iosq[i] \in Cids
      /\ c \notin executing /\ executing \subseteq Cids
      /\ \A i \in Answered : iocq[i].cid # c /\ iocq[i].cid \in Cids
  <2>1. /\ \A i \in Pending : iosq[i] # c
        /\ c \notin executing
        /\ \A i \in Answered : iocq[i].cid # c
    BY <1>1 DEF IInv, PlacesDisjoint
  <2> QED
    BY <1>1, <2>1, Typed DEF TypeOK
<1>9. PlacesDisjoint'
    BY <1>3, <1>4, <1>7, <1>8 DEF IInv, PlacesDisjoint, ringVars
<1>10. NothingLost'
    BY <1>3, <1>4, <1>7 DEF IInv, NothingLost, ringVars
<1>11. AnswersPrecede'
    BY <1>3, <1>4, <1>7, <1>8 DEF IInv, AnswersPrecede, ringVars
<1>12. /\ pc'[p] = "idle"
       /\ \A q \in Tasks \ {p} : pc'[q] = pc[q] /\ command_id'[q] = command_id[q]
       /\ \A q \in Tasks : command_id[q] \in Cids
    BY <1>1, <1>2 DEF TypeOK
<1>13. SqFull' <=> SqFull
    BY <1>3 DEF SqFull, Succ, ringVars
<1>14. CpuExclusive'
    BY <1>12, <1>13 DEF IInv, CpuExclusive, OnCpu
<1>15. CommandIdsUnshared'
    BY <1>12 DEF IInv, CommandIdsUnshared
<1>16. OwnersTake'
    BY <1>1, <1>7, <1>12 DEF IInv, OwnersTake, CommandIdsUnshared, InHands
<1> QED
    BY <1>4, <1>6, <1>9, <1>10, <1>11, <1>14, <1>15, <1>16 DEF IInv

\* A task dies while it waits; nothing else changes.
LEMMA KillPreserves ==
    ASSUME IInv, NEW p \in Tasks, KillTask(p)
    PROVE  IInv'
<1>1. TypeOK
    BY DEF IInv
<1>2. /\ pc' = [pc EXCEPT ![p] = "dead"]
      /\ UNCHANGED <<ringVars, command_statuses, executing, answer, command_id, saved_head,
                     isr, bell_needed>>
    BY DEF KillTask, device, ringVars
<1>3. TypeOK'
    BY <1>1, <1>2 DEF TypeOK, ringVars
<1>4. pc'[p] = "dead" /\ \A q \in Tasks \ {p} : pc'[q] = pc[q]
    BY <1>1, <1>2 DEF TypeOK
<1>5. SqFull' <=> SqFull
    BY <1>2 DEF SqFull, Succ, ringVars
<1>6. CpuExclusive'
    BY <1>4, <1>5 DEF IInv, CpuExclusive, OnCpu
<1>7. OwnersTake' /\ CommandIdsUnshared'
    BY <1>2, <1>4 DEF IInv, OwnersTake, CommandIdsUnshared, InHands
<1> QED
    BY <1>2, <1>3, <1>6, <1>7, RingsUntouched, CommandsUntouched DEF IInv

\* The handler starts, or ends with the head doorbell.
LEMMA IsrEdgePreserves ==
    ASSUME IInv, EnterIsr \/ LeaveIsr
    PROVE  IInv'
<1>1. TypeOK
    BY DEF IInv
<1>2. /\ isr' \in {"off", "loop"} /\ bell_needed' \in BOOLEAN
      /\ cq_doorbell' = cq_doorbell \/ cq_doorbell' = iocq_head
      /\ UNCHANGED <<command_statuses, iosq, iosq_tail, iosq_head, iocq_head, iocq_phase, pc,
                     command_id, saved_head, iocq, sq_doorbell, fetch_head, executing,
                     post_tail, post_phase, answer>>
    BY DEF EnterIsr, LeaveIsr, HeadDoorbell, device
<1>3. TypeOK'
    BY <1>1, <1>2 DEF TypeOK
<1>4. CompletionOrder'
  <2>1. Dist(iocq_head, iocq_head) = 0 /\ Dist(iocq_head, post_tail) >= 0
    BY <1>1, Typed, DistRange
  <2>2. Dist(iocq_head, iocq_head) <= Dist(iocq_head, post_tail)
    BY <2>1
  <2> QED
    BY <1>2, <2>2 DEF IInv, CompletionOrder, Dist
<1>5. Pending' = Pending /\ Answered' = Answered
    BY <1>2 DEF Pending, Answered, Window
<1>6. SubmissionOrder'
    BY <1>2 DEF IInv, SubmissionOrder, Dist
<1>7. HeadsReported'
    BY <1>2, <1>5 DEF IInv, HeadsReported, Dist
<1>8. PhasesTell'
    BY <1>2, <1>5 DEF IInv, PhasesTell, NewPhase
<1>9. PlacesDisjoint'
    BY <1>2, <1>5 DEF IInv, PlacesDisjoint
<1>10. NothingLost' /\ AnswersPrecede'
    BY <1>2, <1>5 DEF IInv, NothingLost, AnswersPrecede
<1>11. CpuExclusive' /\ OwnersTake' /\ CommandIdsUnshared'
    BY <1>2 DEF IInv, CpuExclusive, SqFull, Succ, OwnersTake, CommandIdsUnshared
<1> QED
    BY <1>3, <1>4, <1>6, <1>7, <1>8, <1>9, <1>10, <1>11 DEF IInv

\* The handler takes the entry at its head exactly when the device has posted one.
LEMMA PhaseTest ==
    ASSUME IInv, iocq[iocq_head].phase # iocq_phase
    PROVE  iocq_head # post_tail /\ iocq_head \in Answered
<1>1. TypeOK /\ iocq_head \in Idx /\ post_tail \in Idx
    BY Typed DEF IInv
<1>2. NewPhase(iocq_head) = 1 - iocq_phase /\ iocq_phase \in {0, 1}
    BY <1>1 DEF NewPhase, TypeOK, Idx
<1>3. iocq_head \in Answered
    BY <1>1, <1>2 DEF IInv, PhasesTell
<1>4. iocq_head # post_tail
  <2>1. Dist(iocq_head, iocq_head) < Dist(iocq_head, post_tail)
    BY <1>1, <1>3, WindowByDist DEF Answered
  <2> QED
    BY <1>1, <2>1, DistRange
<1> QED
    BY <1>3, <1>4

\* The handler consumes the oldest completion.
LEMMA ConsumePreserves ==
    ASSUME IInv, ConsumeCompletion
    PROVE  IInv'
<1> DEFINE c == iocq[iocq_head].cid
           s == iocq[iocq_head].sq_head
<1>1. /\ isr = "loop" /\ iocq[iocq_head].phase # iocq_phase
      /\ command_statuses' = [command_statuses EXCEPT ![c] = "COMPLETED"]
      /\ iosq_head' = s
      /\ iocq_head' = Succ(iocq_head)
      /\ iocq_phase' = PhaseAfter(iocq_head)
      /\ bell_needed' = TRUE
      /\ UNCHANGED <<iosq, iosq_tail, pc, command_id, saved_head, isr, iocq, sq_doorbell,
                     cq_doorbell, fetch_head, executing, post_tail, post_phase, answer>>
    BY DEF ConsumeCompletion, device
<1>2. TypeOK
    BY DEF IInv
<1>3. /\ iosq_tail \in Idx /\ iosq_head \in Idx /\ iocq_head \in Idx
      /\ sq_doorbell \in Idx /\ fetch_head \in Idx /\ post_tail \in Idx /\ cq_doorbell \in Idx
      /\ Pending \subseteq Idx /\ Answered \subseteq Idx
      /\ c \in Cids /\ s \in Idx
      /\ \A i \in Idx : iosq[i] \in Cids /\ iocq[i].cid \in Cids /\ iocq[i].sq_head \in Idx
    BY <1>2, Typed
<1>4. iocq_head # post_tail /\ iocq_head \in Answered
    BY <1>1, PhaseTest
<1>5. TypeOK'
  <2>1. command_statuses' \in [Cids -> {"FREE", "IN_FLIGHT", "COMPLETED"}]
    BY <1>1, <1>2 DEF TypeOK
  <2>2. iocq_head' \in Idx /\ iosq_head' \in Idx
    BY <1>1, <1>3, SuccValue
  <2>3. iocq_phase' \in {0, 1}
    BY <1>1, <1>2 DEF TypeOK, PhaseAfter
  <2> QED
    BY <1>1, <1>2, <2>1, <2>2, <2>3 DEF TypeOK
<1>6. Answered' = Answered \ {iocq_head}
    BY <1>1, <1>3, <1>4, WindowShrinks DEF Answered, Window
<1>7. Pending' = Pending
    BY <1>1 DEF Pending, Window
<1>8. ASSUME NEW x \in Idx, Dist(iosq_head, s) <= Dist(iosq_head, x)
      PROVE  Dist(s, x) = Dist(iosq_head, x) - Dist(iosq_head, s)
    BY <1>3, <1>8, DistAdds
<1>9. \A x \in Idx : Dist(iosq_head, x) \in Int
    BY <1>3, DistRange
<1>10. /\ Dist(iosq_head, s) <= Dist(iosq_head, fetch_head)
       /\ Dist(iosq_head, fetch_head) <= Dist(iosq_head, sq_doorbell)
       /\ Dist(iosq_head, sq_doorbell) <= Dist(iosq_head, iosq_tail)
    BY <1>4 DEF IInv, HeadsReported, SubmissionOrder
<1>11. /\ Dist(s, fetch_head) = Dist(iosq_head, fetch_head) - Dist(iosq_head, s)
       /\ Dist(s, sq_doorbell) = Dist(iosq_head, sq_doorbell) - Dist(iosq_head, s)
       /\ Dist(s, iosq_tail) = Dist(iosq_head, iosq_tail) - Dist(iosq_head, s)
  <2>1. /\ Dist(iosq_head, s) <= Dist(iosq_head, sq_doorbell)
        /\ Dist(iosq_head, s) <= Dist(iosq_head, iosq_tail)
    BY <1>3, <1>9, <1>10
  <2> QED
    BY <1>3, <1>8, <1>10, <2>1
<1>12. SubmissionOrder'
  <2>1. /\ Dist(s, fetch_head) <= Dist(s, sq_doorbell)
        /\ Dist(s, sq_doorbell) <= Dist(s, iosq_tail)
    BY <1>3, <1>9, <1>10, <1>11
  <2> QED
    BY <1>1, <2>1 DEF SubmissionOrder, Dist
<1>13. CompletionOrder'
  <2>1. /\ Dist(cq_doorbell, iocq_head) \in Int /\ Dist(cq_doorbell, post_tail) \in Int
        /\ Dist(cq_doorbell, post_tail) < QUEUE_SIZE
    BY <1>3, DistRange
  <2>2. Dist(cq_doorbell, iocq_head) # Dist(cq_doorbell, post_tail)
    <3>1. Dist(cq_doorbell, iocq_head) = Dist(cq_doorbell, post_tail) =>
              Dist(iocq_head, post_tail) = Dist(cq_doorbell, post_tail) - Dist(cq_doorbell, iocq_head)
      BY <1>3, <2>1, DistAdds
    <3> QED
      BY <1>3, <1>4, <2>1, <3>1, DistRange
  <2>3. Dist(cq_doorbell, iocq_head) < QUEUE_SIZE - 1
    BY <2>1, <2>2, SizesAssumption DEF IInv, CompletionOrder
  <2>4. Dist(cq_doorbell, Succ(iocq_head)) = Dist(cq_doorbell, iocq_head) + 1
    BY <1>3, <2>3, DistFarEnd
  <2>5. Dist(cq_doorbell, Succ(iocq_head)) <= Dist(cq_doorbell, post_tail)
    BY <2>1, <2>2, <2>4 DEF IInv, CompletionOrder
  <2> QED
    BY <1>1, <2>5 DEF CompletionOrder, Dist
<1>14. HeadsReported'
  <2>1. ASSUME NEW i \in Answered
        PROVE  Dist(s, iocq[i].sq_head) = Dist(iosq_head, iocq[i].sq_head) - Dist(iosq_head, s)
    <3>1. Dist(iocq_head, iocq_head) <= Dist(iocq_head, i)
      BY <1>3, DistRange
    <3>2. Dist(iosq_head, s) <= Dist(iosq_head, iocq[i].sq_head)
      BY <1>4, <3>1 DEF IInv, HeadsReported
    <3> QED
      BY <1>3, <1>8, <3>2
  <2>2. ASSUME NEW i \in Answered
        PROVE  Dist(s, iocq[i].sq_head) <= Dist(s, fetch_head)
    <3>1. Dist(iosq_head, iocq[i].sq_head) <= Dist(iosq_head, fetch_head)
      BY DEF IInv, HeadsReported
    <3> QED
      BY <1>3, <1>9, <1>11, <2>1, <3>1
  <2>3. ASSUME NEW i \in Answered, NEW j \in Answered, i # iocq_head, j # iocq_head,
               Dist(Succ(iocq_head), i) <= Dist(Succ(iocq_head), j)
        PROVE  Dist(s, iocq[i].sq_head) <= Dist(s, iocq[j].sq_head)
    <3>1. /\ Dist(Succ(iocq_head), i) = Dist(iocq_head, i) - 1
          /\ Dist(Succ(iocq_head), j) = Dist(iocq_head, j) - 1
          /\ Dist(iocq_head, i) \in Int /\ Dist(iocq_head, j) \in Int
      BY <1>3, <2>3, DistNearEnd, DistRange
    <3>2. Dist(iocq_head, i) <= Dist(iocq_head, j)
      BY <2>3, <3>1
    <3>3. Dist(iosq_head, iocq[i].sq_head) <= Dist(iosq_head, iocq[j].sq_head)
      BY <3>2 DEF IInv, HeadsReported
    <3> QED
      BY <1>3, <1>9, <2>1, <3>3
  <2> QED
    BY <1>1, <1>6, <2>2, <2>3 DEF HeadsReported, Dist
<1>15. PhasesTell'
  <2>1. iocq_phase \in {0, 1} /\ QUEUE_SIZE \in Nat /\ QUEUE_SIZE > 1
    BY <1>2, SizesAssumption DEF TypeOK
  <2>2. ASSUME NEW i \in Idx
        PROVE  NewPhase(i)' = IF i = iocq_head THEN 1 - NewPhase(i) ELSE NewPhase(i)
    <3>1. iocq_head' = IF iocq_head + 1 = QUEUE_SIZE THEN 0 ELSE iocq_head + 1
      BY <1>1, <1>3, SuccValue
    <3>2. NewPhase(i)' = IF i >= iocq_head' THEN 1 - iocq_phase' ELSE iocq_phase'
      BY DEF NewPhase
    <3> QED
      BY <1>1, <1>3, <2>1, <3>1, <3>2 DEF NewPhase, PhaseAfter, Idx
  <2>3. ASSUME NEW i \in Idx
        PROVE  iocq'[i].phase = IF i \in Answered' THEN NewPhase(i)' ELSE 1 - NewPhase(i)'
    <3>1. NewPhase(i) \in {0, 1}
      BY <2>1 DEF NewPhase
    <3>2. iocq[i].phase = IF i \in Answered THEN NewPhase(i) ELSE 1 - NewPhase(i)
      BY DEF IInv, PhasesTell
    <3> QED
      BY <1>1, <1>4, <1>6, <2>2, <3>1, <3>2
  <2>4. post_phase' = NewPhase(post_tail)'
    <3>1. NewPhase(post_tail)' = IF post_tail >= iocq_head' THEN 1 - iocq_phase' ELSE iocq_phase'
      BY <1>1 DEF NewPhase
    <3>2. \A i \in Idx : i # iocq_head =>
             NewPhase(i) = IF i >= iocq_head' THEN 1 - iocq_phase' ELSE iocq_phase'
      BY <2>2 DEF NewPhase
    <3> QED
      BY <1>1, <1>3, <1>4, <3>1, <3>2 DEF IInv, PhasesTell
  <2> QED
    BY <2>3, <2>4 DEF PhasesTell
<1>16. /\ command_statuses'[c] = "COMPLETED"
       /\ \A d \in Cids : d # c => command_statuses'[d] = command_statuses[d]
    BY <1>1, <1>2, <1>3 DEF TypeOK
<1>17. /\ \A i \in Pending : iosq[i] # c
       /\ c \notin executing /\ executing \subseteq Cids
       /\ \A i \in Answered' : iocq[i].cid # c
    BY <1>2, <1>4, <1>6 DEF IInv, PlacesDisjoint, TypeOK
<1>18. PlacesDisjoint'
  <2>1. \A i \in Pending : command_statuses'[iosq[i]] = "IN_FLIGHT"
    BY <1>3, <1>16, <1>17 DEF IInv, PlacesDisjoint
  <2>2. \A d \in executing : command_statuses'[d] = "IN_FLIGHT"
    BY <1>16, <1>17 DEF IInv, PlacesDisjoint
  <2>3. \A i \in Answered' : command_statuses'[iocq[i].cid] = "IN_FLIGHT"
    BY <1>3, <1>6, <1>16, <1>17 DEF IInv, PlacesDisjoint
  <2> QED
    BY <1>1, <1>6, <1>7, <2>1, <2>2, <2>3 DEF IInv, PlacesDisjoint
<1>19. NothingLost'
    BY <1>1, <1>6, <1>7, <1>16 DEF IInv, NothingLost
<1>20. AnswersPrecede'
    BY <1>1, <1>4, <1>6, <1>16 DEF IInv, AnswersPrecede
<1>21. CpuExclusive'
  <2>1. ~SqFull => ~SqFull'
    <3>1. /\ Succ(iosq_tail) # iosq_head <=> Dist(iosq_head, iosq_tail) < QUEUE_SIZE - 1
          /\ Succ(iosq_tail) # s <=> Dist(s, iosq_tail) < QUEUE_SIZE - 1
      BY <1>3, DistFarEnd
    <3>2. Dist(iosq_head, s) >= 0
      BY <1>3, DistRange
    <3>3. Dist(iosq_head, iosq_tail) < QUEUE_SIZE - 1 => Dist(s, iosq_tail) < QUEUE_SIZE - 1
      BY <1>3, <1>9, <1>11, <3>2, SizesAssumption
    <3> QED
      BY <1>1, <3>1, <3>3 DEF SqFull, Succ
  <2> QED
    BY <1>1, <2>1 DEF IInv, CpuExclusive
<1>22. CommandIdsUnshared'
    BY <1>1 DEF IInv, CommandIdsUnshared
<1>23. OwnersTake'
    BY <1>1, <1>2, <1>16 DEF IInv, OwnersTake, TypeOK
<1> QED
    BY <1>5, <1>12, <1>13, <1>14, <1>15, <1>18, <1>19, <1>20, <1>21, <1>22, <1>23 DEF IInv

\* The device fetches the next entry the doorbell covers.
LEMMA FetchPreserves ==
    ASSUME IInv, DeviceFetch
    PROVE  IInv'
<1> DEFINE c == iosq[fetch_head]
<1>1. /\ fetch_head # sq_doorbell
      /\ executing' = executing \cup {c}
      /\ fetch_head' = Succ(fetch_head)
      /\ UNCHANGED <<command_statuses, iosq, iosq_tail, iosq_head, iocq_head, iocq_phase,
                     pc, command_id, saved_head, isr, bell_needed, iocq, sq_doorbell,
                     cq_doorbell, post_tail, post_phase, answer>>
    BY DEF DeviceFetch, driver
<1>2. TypeOK
    BY DEF IInv
<1>3. /\ iosq_tail \in Idx /\ iosq_head \in Idx /\ sq_doorbell \in Idx /\ fetch_head \in Idx
      /\ Pending \subseteq Idx /\ Answered \subseteq Idx /\ c \in Cids
      /\ \A i \in Idx : iosq[i] \in Cids /\ iocq[i].cid \in Cids /\ iocq[i].sq_head \in Idx
    BY <1>2, Typed
<1>4. TypeOK'
  <2>1. fetch_head' \in Idx
    BY <1>1, <1>3, SuccValue
  <2>2. executing' \subseteq Cids
    BY <1>1, <1>2, <1>3 DEF TypeOK
  <2> QED
    BY <1>1, <1>2, <2>1, <2>2 DEF TypeOK
<1>5. /\ Dist(iosq_head, fetch_head) \in Int /\ Dist(iosq_head, sq_doorbell) \in Int
      /\ Dist(iosq_head, iosq_tail) \in Int /\ Dist(iosq_head, sq_doorbell) < QUEUE_SIZE
    BY <1>3, DistRange
<1>6. Dist(iosq_head, fetch_head) < Dist(iosq_head, sq_doorbell)
  <2>1. /\ Dist(iosq_head, fetch_head) <= Dist(iosq_head, sq_doorbell)
        /\ Dist(fetch_head, sq_doorbell) = Dist(iosq_head, sq_doorbell) - Dist(iosq_head, fetch_head)
    BY <1>3, DistAdds DEF IInv, SubmissionOrder
  <2>2. Dist(fetch_head, sq_doorbell) # 0
    BY <1>1, <1>3, DistRange
  <2> QED
    BY <1>5, <2>1, <2>2
<1>7. Dist(iosq_head, Succ(fetch_head)) = Dist(iosq_head, fetch_head) + 1
  <2>1. Dist(iosq_head, fetch_head) < QUEUE_SIZE - 1
    BY <1>5, <1>6, SizesAssumption
  <2> QED
    BY <1>3, <2>1, DistFarEnd
<1>8. SubmissionOrder'
  <2>1. Dist(iosq_head, Succ(fetch_head)) <= Dist(iosq_head, sq_doorbell)
    BY <1>5, <1>6, <1>7
  <2> QED
    BY <1>1, <2>1 DEF IInv, SubmissionOrder, Dist
<1>9. fetch_head # iosq_tail
    BY <1>5, <1>6 DEF IInv, SubmissionOrder
<1>10. Pending' = Pending \ {fetch_head} /\ fetch_head \in Pending
    BY <1>1, <1>3, <1>9, WindowShrinks DEF Pending, Window
<1>11. Answered' = Answered
    BY <1>1 DEF Answered, Window
<1>12. CompletionOrder'
    BY <1>1 DEF IInv, CompletionOrder, Dist
<1>13. HeadsReported'
  <2>1. ASSUME NEW i \in Answered
        PROVE  Dist(iosq_head, iocq[i].sq_head) <= Dist(iosq_head, Succ(fetch_head))
    <3>1. Dist(iosq_head, iocq[i].sq_head) <= Dist(iosq_head, fetch_head)
      BY DEF IInv, HeadsReported
    <3>2. Dist(iosq_head, iocq[i].sq_head) \in Int
      BY <1>3, DistRange
    <3> QED
      BY <1>5, <1>7, <3>1, <3>2
  <2> QED
    BY <1>1, <1>11, <2>1 DEF IInv, HeadsReported, Dist
<1>14. PhasesTell'
    BY <1>1, <1>11 DEF IInv, PhasesTell, NewPhase
<1>15. PlacesDisjoint'
  <2>1. \A i \in Pending' : iosq[i] \notin executing'
    BY <1>1, <1>10 DEF IInv, PlacesDisjoint
  <2>2. \A i \in Answered : iocq[i].cid \notin executing'
    BY <1>1, <1>10 DEF IInv, PlacesDisjoint
  <2>3. \A d \in executing' : command_statuses[d] = "IN_FLIGHT"
    BY <1>1, <1>10 DEF IInv, PlacesDisjoint
  <2> QED
    BY <1>1, <1>10, <1>11, <2>1, <2>2, <2>3 DEF IInv, PlacesDisjoint
<1>16. NothingLost'
    BY <1>1, <1>10, <1>11 DEF IInv, NothingLost
<1>17. AnswersPrecede'
    BY <1>1, <1>11 DEF IInv, AnswersPrecede
<1>18. CpuExclusive' /\ OwnersTake' /\ CommandIdsUnshared'
    BY <1>1 DEF IInv, CpuExclusive, SqFull, Succ, OwnersTake, CommandIdsUnshared
<1> QED
    BY <1>4, <1>8, <1>12, <1>13, <1>14, <1>15, <1>16, <1>17, <1>18 DEF IInv

\* The device answers a command, in whatever order it likes.
LEMMA CompletePreserves ==
    ASSUME IInv, DeviceComplete
    PROVE  IInv'
<1>1. PICK c \in executing, st \in Statuses :
         /\ executing' = executing \ {c}
         /\ iocq' = [iocq EXCEPT ![post_tail] =
                [phase |-> post_phase, cid |-> c, sq_head |-> fetch_head, status |-> st]]
         /\ answer' = [answer EXCEPT ![c] = st]
    BY DEF DeviceComplete
<1>2. /\ Succ(post_tail) # cq_doorbell
      /\ post_tail' = Succ(post_tail)
      /\ post_phase' = IF post_tail + 1 = QUEUE_SIZE THEN 1 - post_phase ELSE post_phase
      /\ UNCHANGED <<command_statuses, iosq, iosq_tail, iosq_head, iocq_head, iocq_phase,
                     pc, command_id, saved_head, isr, bell_needed, sq_doorbell, cq_doorbell,
                     fetch_head>>
    BY DEF DeviceComplete, driver
<1>3. TypeOK
    BY DEF IInv
<1>4. /\ iosq_head \in Idx /\ iocq_head \in Idx /\ fetch_head \in Idx /\ post_tail \in Idx
      /\ cq_doorbell \in Idx
      /\ Pending \subseteq Idx /\ Answered \subseteq Idx
      /\ \A i \in Idx : iosq[i] \in Cids /\ iocq[i].cid \in Cids /\ iocq[i].sq_head \in Idx
      /\ c \in Cids
    BY <1>3, Typed DEF TypeOK
<1>5. TypeOK'
  <2>1. [phase |-> post_phase, cid |-> c, sq_head |-> fetch_head, status |-> st] \in Entry
    BY <1>3, <1>4 DEF TypeOK, Entry
  <2>2. iocq' \in [Idx -> Entry]
    BY <1>1, <1>3, <2>1 DEF TypeOK
  <2>3. post_tail' \in Idx /\ post_phase' \in {0, 1}
    BY <1>2, <1>3, <1>4, SuccValue DEF TypeOK
  <2>4. executing' \subseteq Cids /\ answer' \in [Cids -> Statuses \cup {"none"}]
    BY <1>1, <1>3 DEF TypeOK
  <2> QED
    BY <1>2, <1>3, <2>2, <2>3, <2>4 DEF TypeOK
<1>6. /\ Dist(cq_doorbell, iocq_head) \in Int /\ Dist(cq_doorbell, post_tail) \in Int
      /\ Dist(cq_doorbell, iocq_head) >= 0
    BY <1>4, DistRange
<1>7. CompletionOrder'
  <2>1. Dist(cq_doorbell, Succ(post_tail)) = Dist(cq_doorbell, post_tail) + 1
    BY <1>2, <1>4, DistFarEnd
  <2>2. Dist(cq_doorbell, iocq_head) <= Dist(cq_doorbell, Succ(post_tail))
    BY <1>6, <2>1 DEF IInv, CompletionOrder
  <2> QED
    BY <1>2, <2>2 DEF CompletionOrder, Dist
<1>8. Succ(post_tail) # iocq_head
  <2>1. Dist(cq_doorbell, post_tail) < QUEUE_SIZE - 1
    BY <1>2, <1>4, DistFarEnd
  <2>2. Dist(iocq_head, post_tail) = Dist(cq_doorbell, post_tail) - Dist(cq_doorbell, iocq_head)
    BY <1>4, DistAdds DEF IInv, CompletionOrder
  <2>3. Dist(iocq_head, post_tail) < QUEUE_SIZE - 1
    BY <1>6, <2>1, <2>2, SizesAssumption
  <2> QED
    BY <1>4, <2>3, DistFarEnd
<1>9. Answered' = Answered \cup {post_tail} /\ post_tail \notin Answered
    BY <1>2, <1>4, <1>8, WindowGrows DEF Answered, Window
<1>10. Pending' = Pending
    BY <1>2 DEF Pending, Window
<1>11. /\ iocq'[post_tail].phase = post_phase /\ iocq'[post_tail].cid = c
       /\ iocq'[post_tail].sq_head = fetch_head
       /\ \A i \in Idx : i # post_tail => iocq'[i] = iocq[i]
    BY <1>1, <1>3, <1>4 DEF TypeOK
<1>12. SubmissionOrder'
    BY <1>2 DEF IInv, SubmissionOrder, Dist
<1>13. HeadsReported'
  <2>1. ASSUME NEW i \in Answered'
        PROVE  Dist(iosq_head, iocq'[i].sq_head) <= Dist(iosq_head, fetch_head)
    <3>1. Dist(iosq_head, fetch_head) \in Int
      BY <1>4, DistRange
    <3> QED
      BY <1>4, <1>9, <1>11, <3>1 DEF IInv, HeadsReported
  <2>2. ASSUME NEW i \in Answered', NEW j \in Answered', Dist(iocq_head, i) <= Dist(iocq_head, j)
        PROVE  Dist(iosq_head, iocq'[i].sq_head) <= Dist(iosq_head, iocq'[j].sq_head)
    <3>1. CASE j = post_tail
      BY <1>11, <2>1, <3>1
    <3>2. CASE i \in Answered /\ j \in Answered
      BY <1>4, <1>9, <1>11, <2>2, <3>2 DEF IInv, HeadsReported
    <3>3. CASE i = post_tail /\ j \in Answered
      <4>1. Dist(iocq_head, j) < Dist(iocq_head, post_tail)
        BY <1>4, <3>3, WindowByDist DEF Answered
      <4>2. Dist(iocq_head, j) \in Int /\ Dist(iocq_head, post_tail) \in Int
        BY <1>4, <3>3, DistRange
      <4> QED
        BY <2>2, <3>3, <4>1, <4>2
    <3> QED
      BY <1>9, <3>1, <3>2, <3>3
  <2> QED
    BY <1>2, <2>1, <2>2 DEF HeadsReported, Dist
<1>14. PhasesTell'
  <2>1. iocq_phase \in {0, 1} /\ QUEUE_SIZE \in Nat /\ QUEUE_SIZE > 1
    BY <1>3, SizesAssumption DEF TypeOK
  <2>2. \A i \in Idx : NewPhase(i)' = NewPhase(i)
    BY <1>2 DEF NewPhase
  <2>3. post_phase = NewPhase(post_tail)
    BY DEF IInv, PhasesTell
  <2>4. \A i \in Idx : iocq'[i].phase = IF i \in Answered' THEN NewPhase(i)' ELSE 1 - NewPhase(i)'
    <3>1. \A i \in Idx : iocq[i].phase = IF i \in Answered THEN NewPhase(i) ELSE 1 - NewPhase(i)
      BY DEF IInv, PhasesTell
    <3> QED
      BY <1>9, <1>11, <2>2, <2>3, <3>1
  <2>5. post_phase' = NewPhase(Succ(post_tail))
    <3>1. Succ(post_tail) = IF post_tail + 1 = QUEUE_SIZE THEN 0 ELSE post_tail + 1
      BY <1>4, SuccValue
    <3> QED
      BY <1>2, <1>4, <1>8, <2>1, <2>3, <3>1 DEF NewPhase, Idx
  <2>6. NewPhase(Succ(post_tail)) = NewPhase(post_tail)'
    BY <1>2 DEF NewPhase
  <2> QED
    BY <2>4, <2>5, <2>6 DEF PhasesTell
<1>15. PlacesDisjoint'
  <2>1. /\ command_statuses[c] = "IN_FLIGHT"
        /\ \A i \in Pending : iosq[i] # c
        /\ \A i \in Answered : iocq[i].cid # c
    BY DEF IInv, PlacesDisjoint
  <2>2. \A i \in Answered' : /\ command_statuses[iocq'[i].cid] = "IN_FLIGHT"
                             /\ iocq'[i].cid \notin executing'
    BY <1>1, <1>4, <1>9, <1>11, <2>1 DEF IInv, PlacesDisjoint
  <2>3. \A i, j \in Answered' : iocq'[i].cid = iocq'[j].cid => i = j
    BY <1>4, <1>9, <1>11, <2>1 DEF IInv, PlacesDisjoint
  <2>4. \A i \in Pending, j \in Answered' : iosq[i] # iocq'[j].cid
    BY <1>4, <1>9, <1>11, <2>1 DEF IInv, PlacesDisjoint
  <2>5. executing' \subseteq executing
    BY <1>1
  <2> QED
    BY <1>2, <1>10, <2>2, <2>3, <2>4, <2>5 DEF IInv, PlacesDisjoint
<1>16. NothingLost'
  <2> SUFFICES ASSUME NEW d \in Cids, command_statuses[d] = "IN_FLIGHT"
               PROVE  \/ \E i \in Pending : iosq[i] = d
                      \/ d \in executing'
                      \/ \E i \in Answered' : iocq'[i].cid = d
    BY <1>2, <1>10 DEF NothingLost
  <2>1. \/ \E i \in Pending : iosq[i] = d
        \/ d \in executing
        \/ \E i \in Answered : iocq[i].cid = d
    BY DEF IInv, NothingLost
  <2> QED
    BY <1>1, <1>4, <1>9, <1>11, <2>1
<1>17. AnswersPrecede'
  <2>1. answer'[c] # "none" /\ \A d \in Cids : d # c => answer'[d] = answer[d]
    BY <1>1, <1>3, <1>4, SizesAssumption DEF TypeOK
  <2> QED
    BY <1>2, <1>4, <1>9, <1>11, <2>1 DEF IInv, AnswersPrecede
<1>18. CpuExclusive' /\ OwnersTake' /\ CommandIdsUnshared'
    BY <1>2 DEF IInv, CpuExclusive, SqFull, Succ, OwnersTake, CommandIdsUnshared
<1> QED
    BY <1>5, <1>7, <1>12, <1>13, <1>14, <1>15, <1>16, <1>17, <1>18 DEF IInv

-----------------------------------------------------------------------------
\* Every step preserves the invariant.
LEMMA StepPreserves ==
    ASSUME IInv, [Next]_vars
    PROVE  IInv'
<1>1. ASSUME NEW p \in Tasks, Submit(p) PROVE IInv'
  <2>1. /\ pc[p] \in {"idle", "full", "spin"} /\ HasCpu(p)
        /\ UNCHANGED <<iosq_head, iocq, iocq_head, iocq_phase, saved_head, isr, bell_needed,
                       sq_doorbell, cq_doorbell, fetch_head, executing, post_tail, post_phase,
                       answer>>
    BY <1>1 DEF Submit
  <2>2. CASE (SqFull /\ pc[p] # "spin") \/ FreeCids = {}
    <3>1. /\ UNCHANGED <<command_statuses, command_id, iosq, iosq_tail>>
          /\ \/ pc' = [pc EXCEPT ![p] = "full"]
             \/ pc' = [pc EXCEPT ![p] = "spin"] /\ (~SqFull \/ pc[p] = "spin")
      BY <1>1, <2>2 DEF Submit
    <3> QED
      BY <2>1, <3>1, WaitPreserves DEF ringVars
  <2>3. CASE (~SqFull \/ pc[p] = "spin") /\ FreeCids # {}
    <3>1. Enqueue(p) /\ pc' = [pc EXCEPT ![p] = "bell"]
      BY <1>1, <2>3 DEF Submit
    <3> QED
      BY <2>1, <2>3, <3>1, EnqueuePreserves
  <2> QED
    BY <2>2, <2>3
<1>2. CASE UNCHANGED vars
  <2>1. UNCHANGED <<ringVars, command_statuses, executing, answer, pc, command_id, saved_head,
                    isr, bell_needed>>
    BY <1>2 DEF vars, driver, device, ringVars
  <2>2. TypeOK'
    BY <2>1 DEF IInv, TypeOK, ringVars
  <2>3. CpuExclusive' /\ OwnersTake' /\ CommandIdsUnshared'
    BY <2>1 DEF IInv, CpuExclusive, SqFull, Succ, OwnersTake, CommandIdsUnshared, ringVars
  <2> QED
    BY <2>1, <2>2, <2>3, RingsUntouched, CommandsUntouched DEF IInv
<1> QED
    BY <1>1, <1>2, RingDoorbellPreserves, FinishPreserves, KillPreserves, IsrEdgePreserves,
       ConsumePreserves, FetchPreserves, CompletePreserves DEF Next, IsrStep, DeviceStep

\* The invariant holds in every reachable state.
THEOREM Invariance == Spec => []IInv
<1>1. IInv /\ [Next]_vars => IInv'
    BY StepPreserves
<1> QED
    BY <1>1, InitEstablishes, PTL DEF Spec

\* The variables of driver and device keep their types, whatever the sizes of
\* the queues: no index leaves its ring.
THEOREM TypeCorrect == Spec => []TypeOK
<1>1. IInv => TypeOK
    BY DEF IInv
<1> QED
    BY <1>1, Invariance, PTL

\* start_command never gives an id to two tasks that are using one.
THEOREM IdsStayUnshared == Spec => []CommandIdsUnshared
<1>1. IInv => CommandIdsUnshared
    BY DEF IInv
<1> QED
    BY <1>1, Invariance, PTL

\* A set of indices has one member, or none, when any two members are equal.
LEMMA CountOneOrNone ==
    ASSUME NEW S, \A i, j \in S : i = j
    PROVE  Cardinality(S) = IF S = {} THEN 0 ELSE 1
<1>1. CASE S = {}
    BY <1>1, FS_EmptySet
<1>2. CASE S # {}
  <2>1. PICK i : S = {i}
    BY <1>2
  <2> QED
    BY <1>2, <2>1, FS_Singleton
<1> QED
    BY <1>1, <1>2

\* No command is overwritten in a full queue, lost where a ring wraps around, or
\* completed twice: an id in flight is in one place, any other is nowhere.
THEOREM CommandsStayInOnePlace == Spec => []EveryCommandInOnePlace
<1>1. ASSUME IInv PROVE EveryCommandInOnePlace
  <2> SUFFICES ASSUME NEW c \in Cids
               PROVE  Places(c) = IF command_statuses[c] = "IN_FLIGHT" THEN 1 ELSE 0
    BY DEF EveryCommandInOnePlace
  <2>1. /\ InSubmission(c) = {i \in Pending : iosq[i] = c}
        /\ InCompletion(c) = {i \in Answered : iocq[i].cid = c}
    BY DEF InSubmission, InCompletion, Pending, Answered
  <2>2. /\ Cardinality(InSubmission(c)) = IF InSubmission(c) = {} THEN 0 ELSE 1
        /\ Cardinality(InCompletion(c)) = IF InCompletion(c) = {} THEN 0 ELSE 1
    <3>1. \A i, j \in InSubmission(c) : i = j
      BY <1>1, <2>1 DEF IInv, PlacesDisjoint
    <3>2. \A i, j \in InCompletion(c) : i = j
      BY <1>1, <2>1 DEF IInv, PlacesDisjoint
    <3> QED
      BY <3>1, <3>2, CountOneOrNone
  <2>3. CASE command_statuses[c] = "IN_FLIGHT"
    <3>1. InSubmission(c) # {} \/ c \in executing \/ InCompletion(c) # {}
      BY <1>1, <2>1, <2>3 DEF IInv, NothingLost
    <3>2. /\ ~(InSubmission(c) # {} /\ c \in executing)
          /\ ~(InSubmission(c) # {} /\ InCompletion(c) # {})
          /\ ~(c \in executing /\ InCompletion(c) # {})
      BY <1>1, <2>1 DEF IInv, PlacesDisjoint
    <3> QED
      BY <2>2, <2>3, <3>1, <3>2 DEF Places
  <2>4. CASE command_statuses[c] # "IN_FLIGHT"
    <3>1. InSubmission(c) = {} /\ c \notin executing /\ InCompletion(c) = {}
      BY <1>1, <2>1, <2>4 DEF IInv, PlacesDisjoint
    <3> QED
      BY <2>2, <2>4, <3>1 DEF Places
  <2> QED
    BY <2>3, <2>4
<1> QED
    BY <1>1, Invariance, PTL

\* nvme_readpage and nvme_writepage return only once the device has answered the
\* very command they submitted.
THEOREM ReturnsAnswered == Spec => ReturnsAfterItsOwnAnswer
<1> DEFINE Step == \A p \in Tasks :
                      pc[p] = "await" /\ pc'[p] = "idle" => answer[command_id[p]] # "none"
<1>1. ASSUME IInv, [Next]_vars PROVE Step
  <2> SUFFICES ASSUME NEW p \in Tasks, pc[p] = "await", pc'[p] = "idle"
               PROVE  answer[command_id[p]] # "none"
    OBVIOUS
  <2>1. TypeOK
    BY <1>1 DEF IInv
  <2>2. Finish(p)
    <3>1. \A q \in Tasks : /\ Submit(q) => pc'[p] # "idle"
                           /\ RingDoorbell(q) => pc'[p] # "idle"
                           /\ KillTask(q) => pc'[p] # "idle"
                           /\ q # p /\ Finish(q) => pc'[p] # "idle"
      BY <2>1 DEF TypeOK, Submit, RingDoorbell, KillTask, Finish
    <3>2. IsrStep \/ DeviceStep \/ UNCHANGED vars => pc' = pc
      BY DEF IsrStep, EnterIsr, ConsumeCompletion, LeaveIsr, DeviceStep, DeviceFetch,
             DeviceComplete, driver, vars
    <3> QED
      BY <1>1, <3>1, <3>2 DEF Next
  <2>3. command_id[p] \in Cids /\ command_statuses[command_id[p]] = "COMPLETED"
    BY <1>1, <2>1, <2>2 DEF IInv, OwnersTake, InHands, Finish, TypeOK
  <2> QED
    BY <1>1, <2>3 DEF IInv, AnswersPrecede
<1>2. IInv /\ [Next]_vars => [Step]_vars
    BY <1>1
<1> QED
    BY <1>2, Invariance, PTL DEF Spec, ReturnsAfterItsOwnAnswer
=============================================================================
