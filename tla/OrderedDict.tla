---------------------------- MODULE OrderedDict ----------------------------
(***************************************************************************)
(* The order of the keys of Python's OrderedDict, as the eviction policy,  *)
(* the prefix cache and the caches of tensors use it: a list of the keys,  *)
(* the one that was stored or renewed last at the end.                     *)
(***************************************************************************)
EXTENDS Integers, SequencesExt

\* pop(key, None).
Without(seq, x) ==
    IF x \in ToSet(seq)
    THEN RemoveAt(seq, CHOOSE i \in DOMAIN seq : seq[i] = x)
    ELSE seq

\* An assignment with move_to_end.
ToEnd(seq, x) == Append(Without(seq, x), x)
=============================================================================
