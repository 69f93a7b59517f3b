--------------------------- MODULE SavepointStack ---------------------------
(***************************************************************************)
(* What a transaction block with savepoints means to a client: a stack of  *)
(* frames.  The bottom frame is the block, every savepoint opens a frame   *)
(* on top.  Rolling back to a savepoint empties its frame and drops the    *)
(* ones above; releasing it moves their writes into the frame below;       *)
(* committing hands over all writes, bottom frame first.                   *)
(***************************************************************************)
EXTENDS Naturals, Sequences

VARIABLES
  frames,   \* sequence of [name, writes]; empty when no block is open
  shipped   \* the writes the last commit handed over

stackVars == <<frames, shipped>>

\* The writes of the frames from to the top, bottom first.
Flat(fs, from) ==
  LET upTo[i \in 0..Len(fs)] ==
        IF i < from THEN << >> ELSE upTo[i - 1] \o fs[i].writes
  IN upTo[Len(fs)]

\* The innermost frame of the name is frame i; the bottom frame has no name.
Innermost(i) ==
  /\ i \in 2..Len(frames)
  /\ \A j \in (i + 1)..Len(frames) : frames[j].name # frames[i].name

StackInit == frames = << >> /\ shipped = << >>

Open ==
  /\ frames = << >>
  /\ Len(frames') = 1 /\ frames'[1].writes = << >>
  /\ UNCHANGED shipped

\* Writes are added to the top frame.
Add ==
  /\ frames # << >> /\ Len(frames') = Len(frames)
  /\ LET top == Len(frames)
         old == frames[top].writes
         new == frames'[top].writes
     IN /\ frames' = [frames EXCEPT ![top].writes = new]
        /\ Len(old) <= Len(new) /\ SubSeq(new, 1, Len(old)) = old
  /\ UNCHANGED shipped

Mark ==
  /\ frames # << >> /\ Len(frames') = Len(frames) + 1
  /\ frames' = Append(frames, [name |-> frames'[Len(frames')].name, writes |-> << >>])
  /\ UNCHANGED shipped

RollbackTo(i) ==
  /\ Innermost(i)
  /\ frames' = Append(SubSeq(frames, 1, i - 1), [name |-> frames[i].name, writes |-> << >>])
  /\ UNCHANGED shipped

Release(i) ==
  /\ Innermost(i)
  /\ frames' = [SubSeq(frames, 1, i - 1) EXCEPT ![i - 1].writes = @ \o Flat(frames, i)]
  /\ UNCHANGED shipped

Discard == frames' = << >> /\ UNCHANGED shipped

Commit ==
  /\ frames # << >>
  /\ frames' = << >>
  /\ shipped' = Flat(frames, 1)

StackNext ==
  \/ Open \/ Add \/ Mark \/ Discard \/ Commit
  \/ \E i \in 2..Len(frames) : RollbackTo(i) \/ Release(i)

StackSpec == StackInit /\ [][StackNext]_stackVars
=============================================================================
