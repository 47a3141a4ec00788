------------------------------- MODULE Batch -------------------------------
(***************************************************************************)
(* What a batch of pushed changes is told: the attribution of one physical *)
(* check run to its members (cargoless-core/src/batch.rs, and the serve    *)
(* daemon's checker, truncation guard and slicing in serveapi.rs).         *)
(*                                                                         *)
(* A member is a worktree and the patch it pushed.  A patch is abstract:   *)
(* what the checks say of a union of patches is the constant RedUnions,    *)
(* which pairs carry different content for one path is Clash.              *)
(***************************************************************************)
EXTENDS Naturals, FiniteSets, SequencesExt

CONSTANTS Worktree, Patch,
          Truncated,   \* the patches that name changed files and carry none
          Clash,       \* the sets of patches union_overlay_files refuses
          RedUnions    \* the unions the project checks find red

\* A push names a path once (push.rs collects the paths in a set), so it takes
\* two patches to clash.
ASSUME PatchAssumption == /\ Truncated \subseteq Patch
                          /\ Clash \subseteq SUBSET Patch
                          /\ \A c \in Clash : \E p, q \in c : p # q
                          /\ RedUnions \subseteq SUBSET Patch

Member == [wt : Worktree, patch : Patch]
Verdict == {"green", "red", "indeterminate"}
Provenance == {"combined_green", "solo_green", "solo_red", "interaction_red", "indeterminate"}

\* One result; basis is the union of patches it was judged on (history).
MemberResult == [wt : Worktree, patch : Patch, verdict : Verdict, provenance : Provenance,
                 basis : SUBSET Patch]

PatchesOf(ms) == {ms[i].patch : i \in DOMAIN ms}
Conflicting(S) == \E c \in Clash : c \subseteq S

Told(m, v, p, S) == [wt |-> m.wt, patch |-> m.patch, verdict |-> v, provenance |-> p, basis |-> S]
Unknown(m) == Told(m, "indeterminate", "indeterminate", {})
AllUnknown(ms) == [i \in DOMAIN ms |-> Unknown(ms[i])]

-----------------------------------------------------------------------------
\* The checks of one union: infra when they could not run or did not judge.
Checks(S, infra) == IF infra THEN "infra" ELSE IF S \in RedUnions THEN "red" ELSE "green"

\* Members whose overlays conflict are red without a run.
Combined(ms, infra) ==
  IF Conflicting(PatchesOf(ms)) THEN "red" ELSE Checks(PatchesOf(ms), infra)

Solo(m, infra) ==
  LET S == {m.patch} IN
  CASE Checks(S, infra) = "infra" -> Told(m, "indeterminate", "indeterminate", S)
    [] Checks(S, infra) = "green" -> Told(m, "green", "solo_green", S)
    [] Checks(S, infra) = "red"   -> Told(m, "red", "solo_red", S)

\* soloInfra: the members whose own check met an infra failure.
Solos(ms, soloInfra) == [i \in DOMAIN ms |-> Solo(ms[i], i \in soloInfra)]

\* Red together, green apart: nobody is blamed, nobody passes.
Interaction(ms) == [i \in DOMAIN ms |-> Told(ms[i], "red", "interaction_red", PatchesOf(ms))]

Fallback(ms, soloInfra) ==
  LET solos == Solos(ms, soloInfra) IN
  IF \A i \in DOMAIN solos : solos[i].verdict = "green" THEN Interaction(ms) ELSE solos

RunBatch(ms, corun, infra, soloInfra) ==
  CASE ~corun \/ Len(ms) <= 1 -> Solos(ms, soloInfra)
    [] OTHER -> CASE Combined(ms, infra) = "infra" -> AllUnknown(ms)
                  [] Combined(ms, infra) = "green" ->
                       [i \in DOMAIN ms |-> Told(ms[i], "green", "combined_green", PatchesOf(ms))]
                  [] Combined(ms, infra) = "red"   -> Fallback(ms, soloInfra)

-----------------------------------------------------------------------------
(* SelectSeq by position, written without recursion so that its properties *)
(* can be proved.                                                          *)

\* The element of rank k of a set of numbers.
Nth(I, k) == CHOOSE i \in I : Cardinality({j \in I : j <= i}) = k
Pick(s, I) == [k \in 1..Cardinality(I) |-> s[Nth(I, k)]]

-----------------------------------------------------------------------------
Suspect(m) == m.patch \in Truncated

\* The clean members' results in their order, Unknown for the suspects.
Stitch(results, ms) ==
  LET CleanUpTo(i) == Cardinality({j \in 1..i : ~Suspect(ms[j])})
  IN  [i \in DOMAIN ms |-> IF Suspect(ms[i]) THEN Unknown(ms[i]) ELSE results[CleanUpTo(i)]]

Clean(ms) == Pick(ms, {i \in DOMAIN ms : ~Suspect(ms[i])})

\* One physical run over ms.
RunBatchCheckNow(ms, corun, infra, soloInfra) ==
  Stitch(RunBatch(Clean(ms), corun, infra, soloInfra), ms)

\* What a submitter is told of the slice of results that is its own.
VerdictForMembers(results) ==
  CASE \E i \in DOMAIN results : results[i].verdict = "indeterminate" -> "indeterminate"
    [] \A i \in DOMAIN results : results[i].verdict = "green" -> "green"
    [] OTHER -> "red"
=============================================================================
