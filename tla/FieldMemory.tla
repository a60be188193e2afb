----------------------------- MODULE FieldMemory -----------------------------
(***************************************************************************)
(* What the memory fabric promises the core.                               *)
(*                                                                         *)
(* Memory is a line of bits that wraps around.  The core has at most one   *)
(* field access under way: a job.  The job goes through the aligned words  *)
(* the field lies in, in ascending order.  Serving one of them is one      *)
(* atomic step: a write replaces the field's bits in that word and no      *)
(* other bit, a read collects them.  Between two words of a job, and at    *)
(* any other time, another master may write a whole word.  A new job       *)
(* starts only when the last one has gone through all its words, so the    *)
(* core's accesses happen in the order it made them.                       *)
(***************************************************************************)
EXTENDS Integers

CONSTANTS W, NWords

VARIABLES
    line,       \* the bits of memory
    job         \* the core's access

LineBits == 0 .. NWords * W - 1
DataBits == 0 .. 2 * W - 1
NoBits   == [i \in DataBits |-> 0]
NoJob    == [op |-> "none"]

JobType == [op : {"read", "write"}, start : LineBits, size : 0 .. 4 * W - 1,
            data : [DataBits -> {0, 1}], keep : SUBSET DataBits,
            next : 0 .. 3, got : [DataBits -> {0, 1}]]

\* The word of the job that field bit i lies in, counting from 0.
WordOf(j, i) == ((j.start % W) + i) \div W
WordCount(j) == IF j.size \in 1 .. 2 * W THEN WordOf(j, j.size - 1) + 1 ELSE 0

Place(j, i)   == (j.start + i) % (NWords * W)
BitsOf(j, k)  == {i \in 0 .. j.size - 1 : WordOf(j, i) = k}
Finished(j)   == j.op = "none" \/ j.next = WordCount(j)

Init == line = [p \in LineBits |-> 0] /\ job = NoJob

\* One word of a write.
WriteOneWord ==
    /\ job.op = "write" /\ ~Finished(job)
    /\ LET written == {i \in BitsOf(job, job.next) : i \notin job.keep}
       IN  line' = [p \in LineBits |->
                       IF \E i \in written : Place(job, i) = p
                       THEN job.data[CHOOSE i \in written : Place(job, i) = p]
                       ELSE line[p]]
    /\ job' = [job EXCEPT !.next = @ + 1]

\* One word of a read.
ReadOneWord ==
    /\ job.op = "read" /\ ~Finished(job)
    /\ job' = [job EXCEPT !.next = @ + 1,
                          !.got = [i \in DataBits |->
                                      IF i \in BitsOf(job, job.next)
                                      THEN line[Place(job, i)] ELSE @[i]]]
    /\ UNCHANGED line

StartJob  == /\ Finished(job)
             /\ job' \in JobType
             /\ job'.next = 0 /\ job'.got = NoBits
FinishJob == Finished(job) /\ job' = NoJob

\* Another master writes one aligned word.
OtherWrite ==
    \E a \in 0 .. NWords - 1 :
        /\ DOMAIN line' = LineBits
        /\ \A p \in LineBits : /\ line'[p] \in {0, 1}
                               /\ p \div W # a => line'[p] = line[p]

Next == \/ WriteOneWord
        \/ ReadOneWord
        \/ /\ StartJob \/ FinishJob \/ UNCHANGED job
           /\ OtherWrite \/ UNCHANGED line

Spec == Init /\ [][Next]_<<line, job>>
=============================================================================
