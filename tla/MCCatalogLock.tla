----------------------------- MODULE MCCatalogLock -----------------------------
EXTENDS CatalogLock, TLC

\* Entry 1 has two spellings of one form, and a form that suppresses entry 2; entry 2
\* has a form that suppresses entry 1.
Entries == {1, 2}
Texts == {"plain", "respaced", "root", "symptom", "back"}
Forms == {"P", "R", "S", "B"}
Meanings == [t \in Texts |->
    CASE t \in {"plain", "respaced"} -> "P"
      [] t = "root" -> "R"
      [] t = "symptom" -> "S"
      [] t = "back" -> "B"]
Silenced == [f \in Forms |-> CASE f = "R" -> {2} [] f = "B" -> {1} [] OTHER -> {}]
Edits == <<{"plain", "respaced", "root"}, {"symptom", "back"}>>

Cmd(command, flags, want) == [command |-> command, flags |-> flags, want |-> want]
On == {"istio", "testbed"}
Jobs ==
    { Cmd("approve", On, {1}), Cmd("approve", On \cup {"all", "prune"}, {}),
      Cmd("approve", {"istio", "prune"}, {2}), Cmd("approve", {}, {}),
      Cmd("validate", {"no-drift"}, {}), Cmd("validate", {"strict"}, {}),
      Cmd("watch", {}, {}), Cmd("watch", {"strict"}, {}) }

Symmetry == Permutations(Proc)
=============================================================================
