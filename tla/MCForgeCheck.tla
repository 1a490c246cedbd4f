------------------------------- MODULE MCForgeCheck -------------------------------
(* What forge does with a command line, in stages that hand each other only a   *)
(* function and its options: the command line itself, the route of one function *)
(* through the engines, the reconstruction of one clause, and checks that share *)
(* a cache.  A behaviour follows one of them, focus.                            *)
EXTENDS ForgeCheck, EngineRouting, EprReconstruct, TLC

VARIABLE focus

(* Two bodies that are each other's operator-flip mutant, under a contract and  *)
(* the stronger one that the probe suggests for it.                             *)
MCMutations == [b \in Bodies |-> Bodies \ {b}]
MCStronger  == [c \in Contracts |-> IF c = "ens" THEN {"stronger"} ELSE {}]

MCSymmetry == Permutations(Bodies) \cup Permutations(Processes)

(* Groups in the order in which they are typed.  Each flag has a value that is   *)
(* accepted, some one that is not; -o is the short form of --out.                *)
MCGroups ==
    <<<<"file">>, <<"--json">>, <<"--level", "l3">>, <<"--level", "l2">>, <<"--rlimit", "0">>,
      <<"--rlimit", "1">>, <<"--mutation-floor", "1">>, <<"--engine", "verus">>,
      <<"--engine", "lean">>, <<"--target", "kernel-image">>, <<"--target", "kernel">>,
      <<"--export", "f">>, <<"--compose-export", "f">>, <<"--compose-shell", "s">>,
      <<"--crate-name", "c">>, <<"--platform", "x86_64-pc-uefi-smp-v1">>, <<"--entry", "f">>,
      <<"-o", "out">>, <<"--sandbox">>, <<"--generated">>, <<"--generated", "1">>,
      <<"--seed", "1">>, <<"--axiom-probe", "1">>, <<"--doc-drift", "1">>,
      <<"--differential", "0">>, <<"--two-phase", "pass">>, <<"--restratify">>,
      <<"--replace", "n">>, <<"--write", "d">>, <<"--check", "d">>, <<"name">>>>

MCLongFlags ==
    {"--json", "--level", "--rlimit", "--mutation-floor", "--engine", "--target", "--export",
     "--compose-export", "--compose-shell", "--crate-name", "--platform", "--entry", "--sandbox",
     "--generated", "--seed", "--axiom-probe", "--doc-drift", "--differential", "--two-phase",
     "--restratify", "--replace", "--write", "--check"}
MCWords == {"file", "name", "l2", "l3", "verus", "lean", "kernel", "kernel-image", "f", "s", "c",
            "n", "d", "out", "pass", "x86_64-pc-uefi-smp-v1"}

Fine == [error |-> FALSE, headline |-> "certified", upgraded |-> TRUE, rejected |-> FALSE,
         divergent |-> 0, generated |-> 0, skipped |-> FALSE, passed |-> TRUE, stale |-> FALSE]
MCReports ==
    {Fine, [Fine EXCEPT !.error = TRUE], [Fine EXCEPT !.divergent = 1],
     [Fine EXCEPT !.generated = 1],
     [Fine EXCEPT !.headline = "rejected", !.upgraded = FALSE, !.rejected = TRUE,
                  !.passed = FALSE, !.stale = TRUE]}

(* The clauses to reconstruct: with and without a model, with none in the family,  *)
(* with leaves of one kind and of several, with a leaf that is true outside the    *)
(* type only, and one that two variables stand for.                                *)
QfreeLeaf(width, holds) == [width |-> width, holds |-> holds]
EprProblem(cnf, more, atoms, qfree, possible, family) ==
    [cnf |-> cnf, more |-> more, atoms |-> atoms, qfree |-> qfree,
     possible |-> possible, family |-> family]
RelAtom  == <<<<3, 0>>>>
TwoAtoms == <<<<1, 1>>, <<2, 2>>>>
Either   == {{}, {3}}
MCProblem ==
    [unsat   |-> EprProblem({{3}, {-3}}, {}, RelAtom, <<>>, Either, Either),
     sat     |-> EprProblem({{3}}, {}, RelAtom, <<>>, Either, {{3}}),
     outside |-> EprProblem({{3}}, {}, RelAtom, <<>>, Either, {{}}),
     lia     |-> EprProblem({{1, 2}}, {{-1, -2}}, TwoAtoms,
                            <<QfreeLeaf(0, {1, 2}), QfreeLeaf(0, {2, 3})>>, {{}}, {{}}),
     wide    |-> EprProblem({{1}}, {}, <<<<1, 1>>>>, <<QfreeLeaf(0, {4})>>, {{}}, {{}}),
     mixed   |-> EprProblem({{1}, {2}}, {}, TwoAtoms, <<QfreeLeaf(0, {2, 3}), QfreeLeaf(1, {1})>>, {{}}, {{}}),
     widths  |-> EprProblem({{1, 2}}, {}, TwoAtoms, <<QfreeLeaf(1, {1}), QfreeLeaf(2, {2, 3})>>, {{}}, {{}}),
     twice   |-> EprProblem({{1, 2}}, {}, <<<<1, 1>>, <<2, 1>>>>, <<QfreeLeaf(0, {1})>>, {{}}, {{}}),
     family  |-> EprProblem({{1, 3}, {-1, -3}}, {}, <<<<1, 1>>, <<3, 0>>>>,
                            <<QfreeLeaf(2, {1})>>, Either, {{3}})]

(* One process on any of them, or two that meet in the cache. *)
Work(name, lean) == [problem |-> name, lean |-> lean]
MCAssigned ==
    {[p \in Processes |-> IF p = q THEN Work(n, 0) ELSE NoWork] :
        q \in Processes, n \in DOMAIN MCProblem}
      \cup [Processes -> {Work("unsat", 0), Work("unsat", 1), Work("sat", 0)}]
MCWidths == <<1, 2>>

(* The stages that are not followed stand still. *)
RouteIdle == stage = "idle" /\ engine = "none" /\ fn = "none" /\ cert = "none" /\ base = "none"
CmdIdle   == asked = "none" /\ typed = <<>> /\ outcome = Pending
EprIdle   == /\ run = [p \in Processes |-> Started(NoWork)] /\ strict = FALSE
             /\ index = << >> /\ entries = << >> /\ tampers = 0
NoChecks  == verus = [x \in Funs |-> "proved"] /\ vacuous = {} /\ equal = TRUE /\ Init

ForgeInit ==
    \/ focus = "check" /\ Init /\ RouteIdle /\ CmdIdle /\ EprIdle
    \/ focus = "route" /\ RouteInit /\ CmdIdle /\ EprIdle /\ NoChecks
    \/ focus = "command" /\ CmdInit /\ RouteIdle /\ EprIdle /\ NoChecks
    \/ focus = "clause" /\ EprInit /\ RouteIdle /\ CmdIdle /\ NoChecks

ForgeNext ==
    /\ UNCHANGED focus
    /\ \/ focus = "check" /\ Next /\ UNCHANGED <<routeVars, cmdVars, eprVars>>
       \/ focus = "route" /\ RouteNext /\ UNCHANGED <<vars, cmdVars, eprVars>>
       \/ focus = "command" /\ CmdNext /\ UNCHANGED <<vars, routeVars, eprVars>>
       \/ focus = "clause" /\ EprNext /\ UNCHANGED <<vars, routeVars, cmdVars>>

forgeVars == <<vars, routeVars, cmdVars, eprVars, focus>>
ForgeSpec == ForgeInit /\ [][ForgeNext]_forgeVars

(* One stage alone, for the findings about it. *)
CheckSpec == focus = "check" /\ ForgeInit /\ [][ForgeNext]_forgeVars

(* One claim after the other about the routes: where the code contradicts the   *)
(* first, a function is checked against the next one.                            *)
AnotherClaim(next) ==
    /\ focus' = next /\ stage' = "base" /\ cert' = NoCert /\ base' = NoCert
    /\ fn' \in Functions /\ UNCHANGED <<engine, vars, cmdVars, eprVars>>
ClaimsNext ==
    \/ UNCHANGED focus /\ RouteNext /\ UNCHANGED <<vars, cmdVars, eprVars>>
    \/ focus = "route" /\ ~DisagreementRefused /\ AnotherClaim("holes")
    \/ focus = "holes" /\ ~HoledNeverCertifies /\ AnotherClaim("gates")
ClaimsSpec == focus = "route" /\ ForgeInit /\ [][ClaimsNext]_forgeVars

(***************************************************************************)
(* Properties, besides those of ForgeCheck.                                *)
(***************************************************************************)

(* EngineRouting: whatever the route, a certificate of a proof is the proof of  *)
(* every clause of the contract, and the default route undoes the refusal of a  *)
(* gate only where all of the contract was proved by the bit-vector or the EPR   *)
(* engine.  EprReconstruct: a clause that is reconstructed holds, whatever       *)
(* the solvers and the cache say, a countermodel is one, and no countermodel is  *)
(* lost to a leaf assignment that was put aside; writers that interleave or die  *)
(* leave a cache in which nothing differs from what was stored, so that it is    *)
(* called tampered with only where Lean fails to replay it.                      *)
RoutesSound ==
    /\ focus = "route" => CertifiedContractHolds /\ AutoKeepsRefusals
    /\ focus = "clause" => /\ ReconstructedIsValid /\ CountermodelIsReal /\ BlockedIsHopeless
                           /\ CacheReadsBack

(* The command line: every flag of an accepted command line reaches the part of forge   *)
(* that runs, in whatever order the flags come.                                 *)
AskedIsDone == focus = "command" => FlagsHonoured

(* Not all three claims of check.rs about the default route are contradicted:    *)
(* "the base engine reported a counterexample while Lean kernel replay proved    *)
(* every admitted S2.0 clause" is a refusal, what Verus refuted is not           *)
(* certified; then: a function with an open hole never certifies; then: none     *)
(* does until its contract passes the vacuity triage.                            *)
RouteClaimHolds == focus = "gates" => ContractCertifiesFirst
=============================================================================
