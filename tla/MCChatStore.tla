---------------------------- MODULE MCChatStore ----------------------------
(* Small instances of ChatStore for TLC: one session with two messages.     *)
(* Requests are interchangeable, and so are the messages of one session.    *)
EXTENDS ChatStore, TLC

CONSTANT Session

MCSessionOf == [m \in Messages |-> Session]
MCSymmetry == Permutations(Workers) \cup Permutations(Messages)
=============================================================================
