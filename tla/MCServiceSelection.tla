------------------------- MODULE MCServiceSelection -------------------------
(***************************************************************************)
(* Values of TINYCLOUD_SERVICES: not set, one service, a family, nothing,  *)
(* a word that is not one, and the empty selection.                        *)
(***************************************************************************)
EXTENDS ServiceSelection, SequencesExt

MCUpdates == {<<"blob">>, <<"keyVault", "messaging">>, <<"all">>, <<"bogus">>}

MCStart == {<<>>, <<"management">>, <<"management", "storage">>}

MCEnv == {<<>>, <<"management">>, <<"blob", "none", "control">>}

MCShell == {<<>>, <<"all">>, <<"messaging">>}

-----------------------------------------------------------------------------
(* ParseServiceSelection as it is written, a loop over the words: Enabled  *)
(* and Valid say what it returns.                                          *)
AddWord(selection, word) ==
  LET name == Normalize(word)
  IN  CASE name = "all" -> [selection EXCEPT !.enabled = Services]
        [] name = "none" -> [selection EXCEPT !.enabled = {}]
        [] name \in DOMAIN Meaning ->
             [selection EXCEPT !.enabled = @ \union Meaning[name]]
        [] OTHER -> [selection EXCEPT !.invalid = @ \union {word}]

Parse(value) ==
  IF value = <<>> THEN [enabled |-> Services, invalid |-> {}]
  ELSE FoldLeft(AddWord, [enabled |-> {}, invalid |-> {}], value)

Words == {"all", "none", "blob", "storage", "keyVault", "bogus"}

ASSUME ParseIsTheLoop ==
  \A value \in BoundedSeq(Words, 4) :
    /\ Enabled(value) = Parse(value).enabled
    /\ Valid(value) <=> Parse(value).invalid = {}
=============================================================================
