---------------------------- MODULE MCScriptDelivery ----------------------------
(* Instances of ScriptDelivery for TLC. *)
EXTENDS ScriptDelivery, TLC

CONSTANTS t1, x1, x2, s1, m1, m2, r1

MCTasks == {t1}
MCSignals == {x1, x2}
MCFactsOf == s1 :> <<m1>>
MCMembers == {m1, m2}

Draft(hook, structure, members, cited) ==
  [form |-> TRUE, hook |-> hook, cta |-> TRUE, structure |-> structure,
   members |-> members, signals |-> cited]

\* A rewrite that fails the critic, and one that cites a foreign fact and signal.
MCDrafts == {Draft(FALSE, FALSE, {m1}, {}), Draft(TRUE, TRUE, {m2}, MCSignals)}

Symmetry == Permutations(MCSignals)

===============================================================================
