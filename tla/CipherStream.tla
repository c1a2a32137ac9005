---------------------------- MODULE CipherStream ----------------------------
(***************************************************************************)
(* The frames of internal/database/encrypt_stream.go, read back by         *)
(* decrypt_stream.go.  A stream of plaintext units is cut into blocks, and *)
(* block k is sealed with the number k as additional data: it opens only   *)
(* as the k-th frame that is read.  A frame that is cut short, or from     *)
(* another stream, opens nowhere: Broken.                                  *)
(***************************************************************************)
EXTENDS Naturals, Sequences, SequencesExt

CONSTANTS
  Units,       \* length of the dump, in units
  BlockUnits,  \* units of a full block (streamBlockSize)
  End          \* gzip's trailer, the last unit of a compressed dump

ASSUME CipherStreamAssumption ==
  /\ Units \in Nat /\ BlockUnits \in Nat \ {0}
  /\ End \notin 1..Units

Dump == [u \in 1..Units |-> u]
Plain(compress) == IF compress THEN Append(Dump, End) ELSE Dump

Frames == [idx : 0..(Units + 1), data : Seq(1..Units \cup {End})]
Seal(k, block) == [idx |-> k, data |-> block]
Broken == [idx |-> Units + 1, data |-> <<>>]

(* The plaintext of frames that are opened one after the other. *)
Opened(frames) == FlattenSeq([k \in 1..Len(frames) |-> frames[k].data])

(* Mutant: frames open at any place. *)
OpensAnywhere(frame, k) == frame # Broken

Opens(frame, k) == frame.idx = k /\ frame # Broken

(* What a reader finds that was given a damaged copy: the end missing, the *)
(* last frame cut, or a frame missing in the middle.                       *)
Damaged(frames) ==
  {SubSeq(frames, 1, n) : n \in 0..Len(frames)}
    \cup {Append(SubSeq(frames, 1, n), Broken) : n \in 0..(Len(frames) - 1)}
    \cup {RemoveAt(frames, n) : n \in 1..Len(frames)}
=============================================================================
