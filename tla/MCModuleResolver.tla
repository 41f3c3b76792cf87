-------------------------- MODULE MCModuleResolver --------------------------
(***************************************************************************)
(* Every small program of three files: an entry with up to two imports,    *)
(* modules with up to two declarations and imports in any order.           *)
(***************************************************************************)
EXTENDS ModuleResolver

UpTo(n, S) == UNION {[1..k -> S] : k \in 0..n}
Imports(takes) == {ImportOf(f, take) : f \in Files, take \in takes}

EntryTexts ==
  UpTo(2, Imports({Whole, Only({"a"}), Renamed([a |-> "b", b |-> "a"])}))
    \cup {s \o <<Decl("a")>> : s \in UpTo(2, Imports({Whole}))}
ModuleTexts ==
  UpTo(2, {Decl("a"), Decl("b")} \cup Imports({Whole}))
    \cup {<<ImportOf(f, Only({"b"})), Decl("a")>> : f \in Files}
    \cup {Absent, Garbled}

(* For Files = 1..3 and Entry = 1.  The modules 2 and 3 have the same      *)
(* texts, so of two programs that differ only in which module has which    *)
(* number, that whose entry imports 2 first stands for both.               *)
TwoFirst(entry) ==
  \A i \in DOMAIN entry : entry[i].node = "import" /\ entry[i].file = 3
    => \E j \in 1..(i - 1) : entry[j].file = 2
SmallTexts == {entry \in EntryTexts : TwoFirst(entry)} \X ModuleTexts \X ModuleTexts
=============================================================================
