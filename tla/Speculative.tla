---------------------------- MODULE Speculative ----------------------------
(***************************************************************************)
(* Speculative decoding: a draft model proposes up to gamma tokens, a      *)
(* prefix of them is accepted by comparing the two models' probabilities,  *)
(* and when none is, the target model adds one piece itself.               *)
(*                                                                         *)
(* Probabilities are random numbers with q <= 1 and p <= 1, so acceptance  *)
(* may stop anywhere.  Of a token only who made it is kept.                *)
(***************************************************************************)
EXTENDS Naturals, Sequences

CONSTANTS
    Gamma,         \* SpeculativeDecoder.gamma
    MaxTokens,     \* max_tokens
    MaxDraft       \* the most words a draft has (max_tokens of its engine)

ASSUME SpeculativeAssumption ==
    /\ Gamma \in Nat \ {0}
    /\ MaxTokens \in Nat
    /\ MaxDraft \in Nat

VARIABLES
    models,        \* the models that are set: draft_model, target_model
    generated,     \* generated: for each piece, the model it is of
    remaining,     \* remaining
    candidates,    \* len(candidate_tokens) in this round
    step           \* where speculate is

specVars == <<models, generated, remaining, candidates, step>>

Least(m, n) == IF m <= n THEN m ELSE n

SpeculativeInit ==
    /\ models \in SUBSET {"draft", "target"}
    /\ generated = <<>>
    /\ remaining = MaxTokens
    /\ candidates = 0
    /\ step = "start"

\* Without a draft model the target model answers with one piece of its own
\* length, and without a target model the call raises.
Fallback ==
    /\ step = "start" /\ models # {"draft", "target"}
    /\ IF "target" \in models
       THEN generated' = Append(generated, "target") /\ step' = "done"
       ELSE step' = "raised" /\ UNCHANGED generated
    /\ UNCHANGED <<models, remaining, candidates>>

\* Mutant: the draft is not cut to what remains.
DraftUncut(n) ==
    /\ step = "start" /\ models = {"draft", "target"} /\ remaining > 0
    /\ candidates' = Least(n, Gamma)
    /\ step' = IF candidates' = 0 THEN "done" ELSE "verify"
    /\ UNCHANGED <<models, generated, remaining>>

\* The draft has n words, of which at most gamma and what remains are kept; a
\* draft without a word ends the loop.
Draft(n) ==
    /\ step = "start" /\ models = {"draft", "target"} /\ remaining > 0
    /\ candidates' = Least(n, Least(Gamma, remaining))
    /\ step' = IF candidates' = 0 THEN "done" ELSE "verify"
    /\ UNCHANGED <<models, generated, remaining>>

\* Mutant: when nothing is accepted the loop goes round without the target.
RejectAllRetries ==
    /\ step = "verify"
    /\ step' = "start"
    /\ UNCHANGED <<models, generated, remaining, candidates>>

\* rejection_sampling accepts nothing: the target model writes one piece.
RejectAll ==
    /\ step = "verify"
    /\ generated' = Append(generated, "target")
    /\ remaining' = remaining - 1
    /\ step' = "start"
    /\ UNCHANGED <<models, candidates>>

\* Mutant: one more candidate is kept than was accepted.
AcceptOneMore(k) ==
    /\ step = "verify" /\ k \in 1 .. candidates
    /\ generated' = generated \o [i \in 1 .. k + 1 |-> "draft"]
    /\ remaining' = remaining - k
    /\ step' = "start"
    /\ UNCHANGED <<models, candidates>>

\* It accepts the first k candidates, and breaks at the next.
Accept(k) ==
    /\ step = "verify" /\ k \in 1 .. candidates
    /\ generated' = generated \o [i \in 1 .. k |-> "draft"]
    /\ remaining' = remaining - k
    /\ step' = "start"
    /\ UNCHANGED <<models, candidates>>

\* The loop ends when nothing remains.
Finish ==
    /\ step = "start" /\ models = {"draft", "target"} /\ remaining = 0
    /\ step' = "done"
    /\ UNCHANGED <<models, generated, remaining, candidates>>

\* A model raises, and speculate with it.
ModelFails ==
    /\ step \in {"start", "verify"} /\ models # {}
    /\ step' = "raised"
    /\ UNCHANGED <<models, generated, remaining, candidates>>

SpeculativeNext ==
    \/ Fallback
    \/ ModelFails
    \/ \E n \in 0 .. MaxDraft : Draft(n)
    \/ RejectAll
    \/ \E k \in 1 .. MaxTokens : Accept(k)
    \/ Finish

\* One thread runs the loop.
SpeculativeSpec ==
    SpeculativeInit /\ [][SpeculativeNext]_specVars /\ WF_specVars(SpeculativeNext)

-----------------------------------------------------------------------------
SpeculativeTypeOK ==
    /\ models \in SUBSET {"draft", "target"}
    /\ generated \in Seq({"draft", "target"})
    /\ remaining \in Nat
    /\ candidates \in Nat
    /\ step \in {"start", "verify", "done", "raised"}

\* "max_tokens: Maximum tokens to generate": with both models, what was
\* generated and what remains are max_tokens at every moment, and a round never
\* verifies more than gamma or than what remains, so that none overshoots.
BudgetKept ==
    /\ SpeculativeTypeOK
    /\ models = {"draft", "target"} => Len(generated) + remaining = MaxTokens
    /\ step = "verify" => /\ models = {"draft", "target"}
                          /\ candidates \in 1 .. Least(Gamma, remaining)

\* What a decoder promises whatever it speculates: it only ever appends, and
\* keeps within its budget.
Promise == INSTANCE Decoder WITH Budget <- MaxTokens,
    text <- generated, stopped <- step \in {"done", "raised"},
    bounded <- models = {"draft", "target"}

\* The loop implements the decoder.
DecoderSpec == Promise!DecoderSpec

\* Every call comes to its end: each round uses up some of the budget.
SpeculationEnds == <>(step \in {"done", "raised"})
=============================================================================
