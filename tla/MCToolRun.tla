------------------------------ MODULE MCToolRun -------------------------------
(* A small instance of ToolRun for TLC: one tool that every policy runs, in a   *)
(* project of one directory and one file.                                      *)
EXTENDS ToolRun

MCEntries == {[kind |-> "dir", size |-> 0, within |-> Root, name |-> "d"],
              [kind |-> "file", size |-> 1, within |-> "d", name |-> "f"]}
MCCanonical == [n \in {"d", "f"} |-> n]
MCTools == <<[trust |-> "trusted", command |-> TRUE, image |-> FALSE, report |-> "f",
              says |-> {"pass"}]>>
===============================================================================
