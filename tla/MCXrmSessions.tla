---------------------------- MODULE MCXrmSessions ----------------------------
(***************************************************************************)
(* Values for the constants of XrmSessions: up to three contexts.          *)
(***************************************************************************)
EXTENDS XrmSessions, TLC

CONSTANTS a, b, c

TwoConns == {a, b}

ThreeConns == {a, b, c}
=============================================================================
