----------------------------- MODULE MCAutosave ------------------------------
(* A small instance of Autosave: the datapool and the mode manager.         *)
EXTENDS Autosave, TLC

CONSTANTS dp, mode, d0, d1, d2, boot, nominal, safe

MCRecordTypes == {dp, mode}
MCValues      == {d0, d1, d2, boot, nominal, safe}
(* d1 is long: with PayloadMax 8 it does not fit beside a mode record; d2  *)
(* is longer than the serialisation buffer.                                *)
MCRecordLen   == (d0 :> 1) @@ (d1 :> 3) @@ (d2 :> 4) @@ (boot :> 1) @@ (nominal :> 1) @@ (safe :> 1)
MCOrder       == <<dp, mode>>
MCDefault     == (dp :> d0) @@ (mode :> boot)
MCChanges     == (dp :> {d0, d1, d2}) @@ (mode :> {safe})
(* The default build: every state serialises and all records fit. *)
MCSizedRight  == (dp :> {d0, d1}) @@ (mode :> {safe})
============================================================================
