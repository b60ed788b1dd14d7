------------------------------- MODULE MCAssoc -------------------------------
(* Assoc instantiated for TLC: one word in the words file, two groups in   *)
(* the groups file, the second of them glist[0].                           *)
EXTENDS Assoc

CONSTANTS WA, GA

\* The source files: "words" holds one word other than "wdj"; "groups"
\* holds another group and "Amusements/Games".
MCWordsFile == <<WA>>
MCGroupsFile == <<GA, Amuse>>
=============================================================================
