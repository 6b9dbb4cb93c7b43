----------------------------- MODULE MCService ------------------------------
(* Small instances of Service for TLC: a handle that asks for decisions    *)
(* and one that changes them.                                              *)
EXTENDS Service, TLC

CONSTANTS a, b, helloA, helloB, ask1, ask2, change

Owned == [o \in Ops |-> IF o \in {helloA, ask1, ask2} THEN a ELSE b]
Methods == [o \in Ops |-> IF o \in {helloA, helloB} THEN "hello"
                          ELSE IF o = change THEN "change" ELSE "request"]
=============================================================================
