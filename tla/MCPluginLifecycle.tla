-------------------------- MODULE MCPluginLifecycle --------------------------
(* Instance of PluginLifecycle for TLC: words of two bytes, and engine      *)
(* modules put together from pieces of code, what the patterns stand for    *)
(* among them, the last one perhaps cut off.                                *)
EXTENDS PluginLifecycle

Seqs == INSTANCE SequencesExt

\* 83 3D *? ? ? 0F, and A1 *? ? 85 C0, of which the words are filled up.
MCSvsPattern == <<131, 61, Star, Wild, Wild, Wild, 15>>
MCSvPattern  == <<161, Star, Wild, Wild, 133, 192>>

Pieces == {<<131, 61, 1, 2, 0, 15>>, <<161, 3, 4, 133, 192>>,
           <<161, 0, 0, 133, 192>>,   \* a null operand
           <<161, 5, 6, 133, 0>>,     \* something similar
           <<161>>}

MCImages == {Seqs!FlattenSeq(s) : s \in UNION {[1..n -> Pieces] : n \in 0..4}}
=============================================================================
