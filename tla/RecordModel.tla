---------------------------- MODULE RecordModel ----------------------------
(***************************************************************************)
(* What a retained record is: its content-addressed identity, the witness  *)
(* that vouches for it, the retained context of a group, and the           *)
(* fingerprint of an append batch.  Everything here is a pure function of  *)
(* its arguments; the state is in TraceStore.                              *)
(*                                                                         *)
(* A SHA-256 digest is modelled by the value it is taken over: two ids are *)
(* equal exactly when the canonical inputs are.  A body has two renderings *)
(* that the code keeps apart, so a payload is a record of both:            *)
(*   canon  what CanonicalJSONBytes writes, which the id is taken over;    *)
(*   json   what json.Marshal writes, which the records table stores.      *)
(* Lists of references whose order no behaviour depends on are sets.       *)
(***************************************************************************)
EXTENDS Naturals, Sequences, Functions

Capture     == "capture"
Declaration == "declaration"

RootWitnessSchemaRef == "kernel.witness.root.v1"
WitnessSchemaRef     == "kernel.witness.v1"
FrontierSchemaRef    == "shepherd2.frontier.owner_cutoff.v1"

\* The empty string that stands where the root witness would cite a witness.
RootWitnessRef == << >>

\* The path every witness record is retained on.
witnessTraceOwnerID == "kernel:witness"

\* A payload the canonical writer and json.Marshal render alike.
Plain(body) == [canon |-> body, json |-> body]

\* The json of a payload that json.Marshal refuses (a NaN, a channel, ...).
Unencodable == [unencodable |-> TRUE]

-----------------------------------------------------------------------------
(***************************************************************************)
(* Record identity.  The path, the ordinal and the kind label are not part *)
(* of it, so the same content appended twice has the same id.              *)
(***************************************************************************)
RecordDigest(schemaRef, mode, canonBody, causedBy, witness) ==
    <<schemaRef, mode, canonBody, causedBy, witness>>

RootWitnessBody ==
    [actor_ref |-> "kernel:root", authority_refs |-> {},
     semantic_environment_refs |-> {}, substrate_ref |-> "kernel",
     containment |-> "full"]

RootWitnessRecordID ==
    RecordDigest(RootWitnessSchemaRef, Capture, RootWitnessBody, << >>, RootWitnessRef)

\* A record that cites a witness may use every schema but the root's.
ValidateRecordInput(schemaRef, mode) ==
    /\ schemaRef # ""
    /\ mode \in {Capture, Declaration}
    /\ schemaRef # RootWitnessSchemaRef

-----------------------------------------------------------------------------
(***************************************************************************)
(* Retained contexts.  A group names its context in one of three ways:     *)
(*   [form |-> "default"]                  no context given                *)
(*   [form |-> "draft", content |-> c]     a context spelled out           *)
(*   [form |-> "reuse", id |-> i]          one retained before             *)
(* Binding and visibility references travel with the capability references *)
(* through every definition below and are not modelled apart from them.    *)
(***************************************************************************)
defaultContextDraft ==
    [capability_witness_refs |-> {}, semantic_environment_refs |-> {},
     substrate_ref |-> "sqlite.local.v1", containment |-> "contained"]

DraftContent(ctx) ==
    IF ctx.form = "draft" THEN ctx.content ELSE defaultContextDraft

\* The caller's schema environment is added to the environments of the draft.
contextPayload(content, auth) ==
    [content EXCEPT !.semantic_environment_refs = @ \cup {auth.schema_env}]

\* Derived from the intent, the position of the group and the payload.
contextIDFor(intent, groupIndex, payload) == <<intent, groupIndex, payload>>

-----------------------------------------------------------------------------
(***************************************************************************)
(* Witnesses.  The ordinary witness of a group says who appended and under *)
(* which context; its authorities are the context's, not the caller's.     *)
(***************************************************************************)
WitnessBody(content, auth) ==
    [actor_ref |-> auth.actor_ref,
     authority_refs |-> content.capability_witness_refs,
     semantic_environment_refs |-> content.semantic_environment_refs,
     substrate_ref |-> content.substrate_ref,
     containment |-> content.containment]

ValidateWitnessBody(body) ==
    /\ body.containment \in {"full", "contained", "buffered", "uncontained"}
    /\ body.substrate_ref # ""

ordinaryWitnessPlan(content, auth) ==
    LET body == WitnessBody(content, auth)
    IN  [record_id |-> RecordDigest(WitnessSchemaRef, Capture, body, << >>,
                                    RootWitnessRecordID),
         schema_ref |-> WitnessSchemaRef, kind_label |-> "witness",
         body |-> body, witness_ref |-> RootWitnessRecordID]

rootWitnessPlan ==
    [record_id |-> RootWitnessRecordID, schema_ref |-> RootWitnessSchemaRef,
     kind_label |-> "witness_root", body |-> RootWitnessBody,
     witness_ref |-> RootWitnessRef]

-----------------------------------------------------------------------------
(***************************************************************************)
(* Append batches.                                                         *)
(*   [append_intent_id, groups, drafts]                                    *)
(* The drafts of all groups are one sequence in the order the code visits  *)
(* them, each naming its group; a group without drafts is named by none.   *)
(*   group: [trace_owner_id, retained_context, causal_parents]             *)
(*   draft: [group, mode, schema_ref, kind_label, payload, append_local_id,*)
(*           caused_by_fact_ids, caused_by_local_refs]                     *)
(***************************************************************************)
GroupOf(batch, k) == batch.groups[batch.drafts[k].group]

KindLabel(draft) == IF draft.kind_label = "" THEN draft.schema_ref ELSE draft.kind_label

validateBatchShape(batch) ==
    /\ batch.append_intent_id # ""
    /\ \A g \in DOMAIN batch.groups : batch.groups[g].trace_owner_id # ""
    /\ \A k \in DOMAIN batch.drafts :
         LET draft == batch.drafts[k]
         IN  /\ draft.mode \in {Capture, Declaration}
             /\ draft.schema_ref # ""
             /\ draft.payload.json # Unencodable
             /\ draft.append_local_id # "" =>
                  \A j \in DOMAIN batch.drafts \ {k} :
                    batch.drafts[j].append_local_id # draft.append_local_id

\* The whole batch as given, the canonical rendering of its payloads, the actor
\* and the schema environment; not the trust mode and not the authorities.  No
\* context and the default context spelled out are the same batch.
batchDigest(batch, auth) ==
    [intent |-> batch.append_intent_id,
     actor |-> auth.actor_ref,
     schema_version_set |-> auth.schema_env,
     groups |-> [g \in DOMAIN batch.groups |->
                   [batch.groups[g] EXCEPT !.retained_context =
                      IF @.form = "reuse" THEN @
                      ELSE [form |-> "draft", content |-> DraftContent(@)]]],
     drafts |-> [k \in DOMAIN batch.drafts |->
                   [batch.drafts[k] EXCEPT !.payload = @.canon]]]

ensureAppendAuthorized(auth) ==
    auth.trust_mode = "internal" \/ "trusted:internal" \in auth.presented_authority_refs
=============================================================================
