----------------------------- MODULE MCCompiler -----------------------------
(***************************************************************************)
(* Plain compilations of every small program of MCModuleResolver, and      *)
(* command lines of up to three options on a few.                           *)
(***************************************************************************)
EXTENDS MCModuleResolver, CompilerDriver

Ordinary == Words \ {"help", "malformed"}
FewWords == {W \in SUBSET Ordinary : Cardinality(W) <= 3} \cup {W \in SUBSET Words : Cardinality(W) = 1}
SomeCommandLines ==
  [words : FewWords, inputs : BOOLEAN, output : BOOLEAN, backend : {"native", "ir"}]
    \cup [words : {{}}, inputs : {TRUE}, output : {FALSE}, backend : {"other"}]

Plain == [words |-> {}, inputs |-> TRUE, output |-> FALSE, backend |-> "native"]
FewEntries == {Absent, Garbled, <<ImportOf(2, Whole), Decl("a")>>, <<ImportOf(3, Whole)>>}
FewTexts == {<<entry, <<Decl("b")>>, Absent>> : entry \in FewEntries}
CompilerTexts == SmallTexts \cup FewTexts

CompilerInit == (invoked = Plain \/ text \in FewTexts) /\ DriverInit
CompilerSpec == CompilerInit /\ [][DriverNext]_<<vars, driverVars>> /\ WF_<<vars, driverVars>>(DriverNext)
=============================================================================
