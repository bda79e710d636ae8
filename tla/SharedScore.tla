---------------------------- MODULE SharedScore -----------------------------
(***************************************************************************)
(* A score shared among validators (src/dronesync/mpc.py): the score is    *)
(* the constant term of a random polynomial over a prime field, validator  *)
(* number x gets its value at x, and Threshold of these values give the    *)
(* score back.  Scores are integers here: the code multiplies by 10^6 and  *)
(* drops the rest before it splits, and divides after.                     *)
(*                                                                         *)
(* Validators answer in any order, an answer may come twice, and somebody  *)
(* who was given no share may answer too.                                  *)
(***************************************************************************)
EXTENDS Integers, Sequences, FiniteSets, SequencesExt, FiniteSetsExt, Functions

CONSTANTS
  Prime,          \* PRIME
  Threshold,      \* threshold
  Shares,         \* n_shares: validators are numbered from 1
  Outsider,       \* who answers without a share
  CoordinatorMin, \* min_score of MPCCoordinator, 60 of 100
  VerifierMin,    \* 0.6 in MPCVerifier.collect_and_verify
  MaxAnswers      \* bound on the answers collected

VARIABLES
  coeffs,     \* the polynomial, the score first
  answers,    \* responding_validators
  outcome     \* what the coordinator or the verifier concluded

shareVars == <<coeffs, answers, outcome>>

Holders == 1 .. Shares

Field == 0 .. Prime - 1

NoOutcome == [by |-> "nobody", valid |-> FALSE, score |-> 0]

\* Horner's rule from the last coefficient, as _poly_eval has it.
ValueAt(poly, x) == FoldRight(LAMBDA c, acc : (acc * x + c) % Prime, poly, 0)

\* The factors multiplied one after the other, each time modulo the prime.
Product(base, factors) == FoldFunction(LAMBDA x, p : (p * x) % Prime, base, factors)

\* Faulty variant: the polynomial goes through the points as they are, not
\* through the ones mirrored at zero.
LagrangeUnsigned(points, i) ==
  LET others == DOMAIN points \ {i}
  IN  <<Product(points[i][2], [j \in others |-> points[j][1]]),
        Product(1, [j \in others |-> (points[i][1] + Prime) - points[j][1]])>>

\* Numerator and denominator of the i-th term.  The same point twice makes
\* the denominator 0.
Lagrange(points, i) ==
  LET others == DOMAIN points \ {i}
  IN  <<Product(points[i][2], [j \in others |-> Prime - points[j][1]]),
        Product(1, [j \in others |-> (points[i][1] + Prime) - points[j][1]])>>

\* pow(a, p - 2, p): the inverse of a, and 0 for 0.
Inverted(a) == Product(1, [k \in 1 .. Prime - 2 |-> a])

Reconstructed(points) ==
  FoldFunction(LAMBDA x, sum : (sum + x) % Prime, 0,
    [i \in DOMAIN points |-> Lagrange(points, i)[1] * Inverted(Lagrange(points, i)[2])])

\* PRIME is a prime: by Fermat's little theorem pow(a, p - 2, p) is the inverse
\* of a.  There are fewer validators than numbers, and split refuses a threshold
\* they cannot reach.
ASSUME ShareAssumption ==
  /\ Prime \in Nat /\ Shares \in Nat /\ Shares < Prime
  /\ Threshold \in 1 .. Shares
  /\ Outsider \notin Holders
  /\ CoordinatorMin \in Nat \ {0} /\ VerifierMin \in Nat \ {0}
  /\ \A a \in 1 .. Prime - 1 : (a * Inverted(a)) % Prime = 1

Point(v) == <<v, ValueAt(coeffs, v)>>

ShareInit ==
  /\ coeffs = <<>>
  /\ answers = <<>>
  /\ outcome = NoOutcome

\* split, for split_popw and distribute_popw.
SplitScore(poly) ==
  /\ coeffs = <<>>
  /\ coeffs' = poly
  /\ UNCHANGED <<answers, outcome>>

AnswerShare(v) ==
  /\ coeffs # <<>>
  /\ outcome = NoOutcome
  /\ Len(answers) < MaxAnswers
  /\ answers' = Append(answers, v)
  /\ UNCHANGED <<coeffs, outcome>>

\* The coordinator takes the first validators it knows, and asks nobody.
ValidatePrivately ==
  /\ coeffs # <<>>
  /\ outcome = NoOutcome
  /\ LET score == Reconstructed([v \in 1 .. Threshold |-> Point(v)])
     IN  outcome' = [by |-> "coordinator", valid |-> score >= CoordinatorMin, score |-> score]
  /\ UNCHANGED <<coeffs, answers>>

FirstAnswers == SubSeq(answers, 1, Min({Threshold, Len(answers)}))

\* Only the first answers count: an outsider among them is left out, and no
\* later answer takes its place.
CollectAndVerify ==
  /\ coeffs # <<>>
  /\ outcome = NoOutcome
  /\ LET known == {i \in DOMAIN FirstAnswers : answers[i] \in Holders}
         score == Reconstructed([i \in known |-> Point(answers[i])])
     IN  IF Cardinality(known) < Threshold
         THEN outcome' = [by |-> "verifier", valid |-> FALSE, score |-> 0]
         ELSE outcome' = [by |-> "verifier", valid |-> score >= VerifierMin, score |-> score]
  /\ UNCHANGED <<coeffs, answers>>

\* The coordinator is handed some shares, in a dictionary: nobody's twice.
ReconstructAndValidate ==
  /\ coeffs # <<>>
  /\ outcome = NoOutcome
  /\ IsInjective(answers)
  /\ ToSet(answers) \subseteq Holders
  /\ LET score == Reconstructed([i \in DOMAIN FirstAnswers |-> Point(answers[i])])
     IN  IF Len(answers) < Threshold
         THEN outcome' = [by |-> "dictionary", valid |-> FALSE, score |-> 0]
         ELSE outcome' = [by |-> "dictionary", valid |-> score >= CoordinatorMin, score |-> score]
  /\ UNCHANGED <<coeffs, answers>>

ShareNext ==
  \/ \E poly \in [1 .. Threshold -> Field] : SplitScore(poly)
  \/ \E v \in Holders \cup {Outsider} : AnswerShare(v)
  \/ ValidatePrivately
  \/ CollectAndVerify
  \/ ReconstructAndValidate

-----------------------------------------------------------------------------
\* The types of the sharing.
ShareTypeOK ==
  /\ coeffs \in {<<>>} \cup [1 .. Threshold -> Field]
  /\ answers \in Seq(Holders \cup {Outsider})
  /\ outcome \in [by : {"nobody", "coordinator", "verifier", "dictionary"}, valid : BOOLEAN, score : Field]

\* Whichever validators answer first, if they are Threshold different ones the
\* verifier gets the score that was split, and so does the coordinator; and with
\* the Threshold of 2 that both have by default an answer that comes twice, or
\* from an outsider, never makes a score pass that is below the limit
\* (ShamirSecretSharing, MPCVerifier, MPCCoordinator).
SharesAgree ==
  outcome.by # "nobody" =>
    /\ outcome.by = "coordinator" \/ Cardinality({v \in Holders : v \in ToSet(FirstAnswers)}) = Threshold
         => outcome.score = coeffs[1]
    /\ Threshold = 2 /\ outcome.by = "verifier" /\ outcome.valid => coeffs[1] >= VerifierMin
=============================================================================
