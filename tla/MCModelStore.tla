---------------------------- MODULE MCModelStore ----------------------------
(* One model of each kind: whisper's and the gate's single files, the language  *)
(* model on a device with room for one copy and with room for two, sherpa's with *)
(* a hash on its first or its last file, Vosk's archive, and a model that comes  *)
(* with the app.                                                                 *)
EXTENDS ModelStore

CONSTANTS c1, c2

Plain == [way |-> "plain", downloads |-> <<"bin">>, checked |-> {},
          entries |-> <<>>, required |-> {"bin"}, room |-> 0]

Sized(blocks) == [Plain EXCEPT !.way = "sized", !.room = blocks]

Checked(f) == [way |-> "checked", downloads |-> <<"encoder", "tokens">>,
               checked |-> {f}, entries |-> <<>>, required |-> {"encoder", "tokens"}, room |-> 0]

Zipped == [way |-> "zipped", downloads |-> <<"zip">>, checked |-> {},
           entries |-> <<"am", "graph", "ivector">>, required |-> {"am", "graph"}, room |-> 0]

Bundled == [way |-> "bundled", downloads |-> <<>>, checked |-> {},
            entries |-> <<"encoder", "tokens">>, required |-> {"encoder", "tokens"}, room |-> 0]

MCModels == {Plain, Sized(Needed), Sized(2 * Needed),
             Checked("encoder"), Checked("tokens"), Zipped, Bundled}
=============================================================================
