----------------------------- MODULE MCScriptRun -----------------------------
(***************************************************************************)
(* Model checking of ScriptRun: all scripts of up to MaxLength elements,   *)
(* of which some may be on one line.                                       *)
(***************************************************************************)
EXTENDS ScriptRun

CONSTANTS MaxLength

Expecting(kind) == IF kind = "return" THEN Numbers \cup {NoValue} ELSE {NoValue}

Written ==
  UNION {[kind : {kind}, line : Lines, expect : Expecting(kind)] : kind \in Kinds}

MCScripts ==
  {s \in UNION {[1..n -> Written] : n \in 0..MaxLength} :
     \A k \in 1..(Len(s) - 1) : s[k].line <= s[k + 1].line}
=============================================================================
