------------------------------- MODULE MCPublication ------------------------------
(* The two publication protocols of forge.  They share no file, so that a   *)
(* behaviour is of one or of the other.                                     *)
(*                                                                          *)
(* Small programs for VerifiedBuild.  Those after the first two fail a gate *)
(* for each of the requests, another one for most requests.                 *)
EXTENDS VerifiedBuild, TLC

VARIABLE focus

Call(n) == <<"named", n>>

Item == [kind |-> "fn", slag |-> FALSE, boundary |-> FALSE, holes |-> FALSE, fx |-> {},
         req |-> {}, ens |-> {}, dec |-> {}, body |-> {}, variants |-> {},
         level |-> 3, guard |-> "true", scalar |-> TRUE,
         tv |-> [phase \in {"contract", "exec", "body", "guard"} |-> "faithful"]]
Law  == [Item EXCEPT !.kind = "spec"]

(* main: guarded, calls help, is specified by law; lib: calls nothing. *)
Good ==
    [main |-> [Item EXCEPT !.guard = "exec", !.ens = {Call("law")},
                           !.body = {Call("help"), <<"method", "len">>, Call("Some")}],
     help |-> Item, law |-> Law, lib |-> Item,
     edge |-> [Item EXCEPT !.slag = TRUE, !.level = 0]]

MCProgram ==
    [good    |-> Good,
     strong  |-> [Good EXCEPT !.help.level = 4],
     lawless |-> [Good EXCEPT !.law.level = 0, !.lib.boundary = TRUE],
     weak    |-> [Good EXCEPT !.help.level = 1, !.lib.tv["body"] = "skipped"],
     slag    |-> [Good EXCEPT !.help.body = {Call("edge")}, !.lib.fx = {"diverge"}],
     holed   |-> [Good EXCEPT !.help.holes = TRUE, !.lib.body = {Call("ghost")}],
     hosted  |-> [Good EXCEPT !.help.fx = {"read"}, !.lib.tv["exec"] = "absent"],
     rich    |-> [Good EXCEPT !.lib.scalar = FALSE, !.lib.tv["exec"] = "rich"],
     broken  |-> None]
MCSources == DOMAIN MCProgram

MCRequests ==
    {[link |-> {"main"}, compose |-> {}, target |-> "kernel"],
     [link |-> {"lib"}, compose |-> {}, target |-> "std"],
     [link |-> {"main"}, compose |-> {"lib"}, target |-> "std"],
     [link |-> {}, compose |-> {}, target |-> "std"]}

Interchangeable == Permutations(Builders)

(* A kernel declares the frozen clock; one drifted, one is below L3. *)
Op == [reachable |-> TRUE, signature |-> "sig", domain |-> "clock", contract |-> "mono"]
MCRegistry == [clock |-> Op, probe |-> [Op EXCEPT !.reachable = FALSE]]
Decl == [item |-> "read", name |-> "clock", signature |-> "sig", fx |-> {"clock"},
         contract |-> "mono"]
MCDecls == [k1 |-> <<Decl>>, k2 |-> <<Decl>>, low |-> <<Decl>>,
            drift |-> <<[Decl EXCEPT !.contract = "other"]>>]
Core == [policy |-> [level |-> 3, slag |-> FALSE], read |-> [level |-> 0, slag |-> FALSE]]
MCChecked == [k1 |-> Core, k2 |-> [Core EXCEPT !.policy.level = 4], drift |-> Core,
              low |-> [Core EXCEPT !.policy.level = 1]]
MCBoots == [t1 |-> TRUE, t2 |-> TRUE, dud |-> FALSE]

Init ==
    /\ VbInit /\ KiInit
    /\ \/ focus = "bundle" /\ kernel = "k1" /\ tree = "t1" /\ source \in {"good", "lawless"}
       \/ focus = "image" /\ source = "good"
Next ==
    /\ UNCHANGED focus
    /\ \/ focus = "bundle" /\ VbNext /\ UNCHANGED kiVars
       \/ focus = "image" /\ KiNext /\ UNCHANGED vbVars

Spec == Init /\ [][Next]_<<vbVars, kiVars, focus>>

(***************************************************************************)
(* Properties, besides those of the extended modules.                      *)
(***************************************************************************)

(* verified_build: what the destination shows is what one build makes of    *)
(* one source, one shell and one set of link inputs, by provers no older    *)
(* than the recorded ones, whatever was edited, upgraded or interrupted     *)
(* meanwhile, and everything its exports reach, contracts included, is      *)
(* proved.                                                                  *)
PublishedIsProved == PublishedIsOneBuild /\ ExportsProved

(* What is accepted later is whole: verify-build accepts nothing but a      *)
(* bundle that some build made whole, and after a replay one that the tools *)
(* it records compiled.  Of images built one at a time, one that can be     *)
(* seen has all of its siblings, of the same build, and one that validates  *)
(* is bound to the source and the tree it names, although the build reads   *)
(* both repeatedly.                                                         *)
AcceptedIsWhole == AcceptedBundleIsWhole /\ ImageSentinel /\ AcceptedImageIsBound
====
