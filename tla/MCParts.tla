------------------------------- MODULE MCParts -------------------------------
(* Four small parts that share nothing, explored one at a time in one run.  *)
EXTENDS Providers, Backfill, FilesList, ThinkSplitter, TLC

CONSTANT MaxPieces      \* bound: pieces of a text, after an Open tag or not

VARIABLE part           \* the part this behaviour is of

\* The tags, shorter by the letters that say nothing.
MCOpen == <<"<", "t", ">">>
MCClose == <<"<", "/", "t", ">">>
MCSpace == {" "}
MCCharacters == {"<", "/", "t", ">", "a", " "}
Pieces == {MCOpen, MCClose, <<"<">>, <<"<", "/">>, <<"t", ">">>, <<"a">>, <<" ">>}
MCTexts ==
    {opening \o FlattenSeq(s) :
        opening \in {<<>>, MCOpen}, s \in UNION {[1..n -> Pieces] : n \in 0..MaxPieces}}

Init ==
    /\ part \in {"providers", "backfill", "files", "splitter"}
    /\ ProvidersInit /\ BackfillInit /\ FilesInit /\ SplitterInit
    /\ part # "providers" => of = [s \in ServiceIds |-> CHOOSE p \in ProviderIds : TRUE]
    /\ part # "backfill" => lower = [k \in Keys |-> CHOOSE name \in Folded : TRUE]
    /\ part # "files" => params = CHOOSE view \in Views : TRUE

vars == <<part, providersVars, backfillVars, filesVars, splitterVars>>

Next ==
    \/ /\ part = "providers" /\ ProvidersNext
       /\ UNCHANGED <<part, backfillVars, filesVars, splitterVars>>
    \/ /\ part = "backfill" /\ BackfillNext
       /\ UNCHANGED <<part, providersVars, filesVars, splitterVars>>
    \/ /\ part = "files" /\ FilesNext
       /\ UNCHANGED <<part, providersVars, backfillVars, splitterVars>>
    \/ /\ part = "splitter" /\ SplitterNext
       /\ UNCHANGED <<part, providersVars, backfillVars, filesVars>>

Spec == Init /\ [][Next]_vars

Symmetry == Permutations(Members) \cup Permutations(ServiceIds)
=============================================================================
