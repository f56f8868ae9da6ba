---------------------------- MODULE SharedBundle ----------------------------
(***************************************************************************)
(* The bundle of a background job.  One goroutine of SimulatedBundle       *)
(* encodes it for the database while the other, in SendBundle of           *)
(* mevshare/builders.go, removes its private fields: from a copy of the    *)
(* bundle itself, but in place from the bundle in its body.                *)
(***************************************************************************)
EXTENDS Utils

Fields == {"privacy", "metadata"}

\* Where the encoding goroutine is.
Look(field)   == <<"look", field>>
Follow(field) == <<"follow", field>>
Top   == <<"top">>
Done  == <<"done">>
Panic == <<"panic">>

VARIABLES
  top, inner,   \* the fields that are set, of the bundle and of the one in its body
  args,         \* of SendBundle's copy of the bundle
  stats,        \* where the encoding goroutine is
  stored        \* the fields of the two that it has encoded

sharedVars == <<top, inner, args, stats, stored>>

SharedInit(fields, nested) ==
  /\ top = fields /\ args = fields /\ inner = nested
  /\ stats = Look("privacy")
  /\ stored = [top |-> {}, inner |-> {}]

-----------------------------------------------------------------------------
(***************************************************************************)
(* json.Marshal in InsertBundleForStats: the privacy and the metadata of   *)
(* the bundle in the body, and then those of the bundle.  The encoder      *)
(* looks whether a pointer is nil, and loads it again to follow it: when   *)
(* it has become nil in between, the encoder panics and the node ends.     *)
(***************************************************************************)
After(field) == IF field = "privacy" THEN Look("metadata") ELSE Top

EncodeLook(field) ==
  /\ stats = Look(field)
  /\ stats' = IF field \in inner THEN Follow(field) ELSE After(field)
  /\ UNCHANGED <<top, inner, args, stored>>

EncodeFollow(field) ==
  /\ stats = Follow(field)
  /\ \/ /\ field \in inner
        /\ stored' = [stored EXCEPT !.inner = @ \cup {field}]
        /\ stats' = After(field)
     \/ /\ field \notin inner
        /\ stats' = Panic
        /\ UNCHANGED stored
  /\ UNCHANGED <<top, inner, args>>

EncodeTop ==
  /\ stats = Top
  /\ stored' = [stored EXCEPT !.top = top]
  /\ stats' = Done
  /\ UNCHANGED <<top, inner, args>>

Encode == EncodeTop \/ \E field \in Fields : EncodeLook(field) \/ EncodeFollow(field)

-----------------------------------------------------------------------------
\* cleanBundle(&args): the bundle in the body first.
CleanInner(field) ==
  /\ inner' = inner \ {field}
  /\ UNCHANGED <<top, args, stats, stored>>

CleanTop_InPlace ==
  /\ args' = {} /\ top' = {}
  /\ UNCHANGED <<inner, stats, stored>>

CleanTop ==
  /\ args' = {}
  /\ UNCHANGED <<top, inner, stats, stored>>
=============================================================================
