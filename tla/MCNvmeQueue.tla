---------------------------- MODULE MCNvmeQueue ----------------------------
(* Small instances of NvmeQueue for TLC. *)
EXTENDS NvmeQueue, TLC

\* Mortal is all of Tasks or none of them wherever this is used.
TaskSymmetry == Permutations(Tasks)

\* States that differ only in what no step reads any more are one state: an
\* entry the device has fetched, and the id and queue head of a completion the
\* interrupt handler has consumed.
LiveView ==
    <<[i \in Idx |-> IF i \in Window(fetch_head, iosq_tail) THEN iosq[i] ELSE 0],
      [i \in Idx |-> IF i \in Window(iocq_head, post_tail) THEN iocq[i]
                     ELSE [iocq[i] EXCEPT !.cid = 0, !.sq_head = 0]],
      command_statuses, iosq_tail, iosq_head, iocq_head, iocq_phase, pc, command_id,
      saved_head, isr, bell_needed, sq_doorbell, cq_doorbell, fetch_head, executing,
      post_tail, post_phase, answer>>
=============================================================================
