---------------------------- MODULE MCDirectory -----------------------------
EXTENDS Directory

\* Two names of three units and one of five.
MCNameLen == [n \in Names |-> IF n = "config.sys" THEN 10 ELSE 1]
=============================================================================
