---------------------------- MODULE MCTraceStore ----------------------------
(***************************************************************************)
(* Instances of the trace store and of its reader for TLC.  The batches    *)
(* are chosen for what they have in common: content that another batch     *)
(* also appends, parents and contexts another batch retains, an intent     *)
(* another batch uses, and the path the store keeps its own witnesses on.  *)
(*                                                                         *)
(* A run takes calls and requests from one scenario at a time: the law is  *)
(* the same for all of them, and one that mixed them all would be too      *)
(* large.                                                                  *)
(***************************************************************************)
EXTENDS TraceStoreLaws, SliceReadsLaws

MCOwners == {"a", "b", "c", witnessTraceOwnerID}
MCPathOrder == <<"a", "b", "c", witnessTraceOwnerID>>

Trusted == [actor_ref |-> "runtime", schema_env |-> "env", trust_mode |-> "internal",
            presented_authority_refs |-> {"trusted:internal"}]
Agent   == [actor_ref |-> "agent", schema_env |-> "env", trust_mode |-> "",
            presented_authority_refs |-> {"trusted:internal"}]
Stranger == [Agent EXCEPT !.presented_authority_refs = {}]

\* Three payloads: the integer 1, the float64 1 and the JSON number 1.0.  The last
\* two have one canonical rendering and different stored ones.
Int1   == Plain([v |-> "1"])
Float1 == [canon |-> [v |-> "1.0"], json |-> [v |-> "1"]]
Num1   == Plain([v |-> "1.0"])

NoContext == [form |-> "default"]

Group(owner, ctx, parents) ==
    [trace_owner_id |-> owner, retained_context |-> ctx, causal_parents |-> parents]

D(group, payload, local, parents, locals) ==
    [group |-> group, mode |-> Capture, schema_ref |-> "s", kind_label |-> "",
     payload |-> payload, append_local_id |-> local, caused_by_fact_ids |-> parents,
     caused_by_local_refs |-> locals]

B(intent, groups, drafts) ==
    [append_intent_id |-> intent, groups |-> groups, drafts |-> drafts]

App(auth, b) == [op |-> "append", auth |-> auth, batch |-> b]

Pub(id, target, through, publisher, intent, causes) ==
    [op |-> "publish", auth |-> Trusted,
     spec |-> [frontier_id |-> id, target_trace_owner_id |-> target,
               through_fact_id |-> through, publisher_trace_owner_id |-> publisher,
               append_intent_id |-> intent, caused_by |-> causes]]

DefaultPayload == contextPayload(defaultContextDraft, Trusted)
DefaultWitness == ordinaryWitnessPlan(DefaultPayload, Trusted).record_id

\* The content-addressed ids of facts several batches have in common.
X == RecordDigest("s", Capture, Int1.canon, << >>, DefaultWitness)
Y == RecordDigest("s", Capture, Int1.canon, <<X>>, DefaultWitness)

-----------------------------------------------------------------------------
\* X on a, a child of X named by local reference on a, and X once more on b.
Family == B("i1", <<Group("a", NoContext, << >>), Group("b", NoContext, << >>)>>,
            <<D(1, Int1, "x", << >>, << >>), D(1, Int1, "", << >>, <<"x">>),
              D(2, Int1, "", << >>, << >>)>>)

\* The same batch with the default context spelled out, and one that differs in a
\* kind label only.
FamilySpelled == [Family EXCEPT !.groups[1].retained_context =
                    [form |-> "draft", content |-> defaultContextDraft]]
FamilyRelabelled == [Family EXCEPT !.drafts[1].kind_label = "k"]

\* X again, on a.
Again == B("i2", <<Group("a", NoContext, << >>)>>, <<D(1, Int1, "", << >>, << >>)>>)

\* A child of X and Y under the context that Family retained for its first group.
Child == B("i3", <<Group("b", [form |-> "reuse", id |-> contextIDFor("i1", 1, DefaultPayload)],
                         <<X>>)>>, <<D(1, Float1, "", <<Y>>, << >>)>>)

\* Facts on the witnesses' own path: this fails if its witness is new.
OnWitnessPath == B("i4", <<Group("b", NoContext, << >>), Group(witnessTraceOwnerID, NoContext, << >>)>>,
                   <<D(1, Num1, "", << >>, << >>), D(2, Int1, "", << >>, << >>)>>)

\* The float64 1 where OnWitnessPath has the number 1.0: one id, two renderings; and a
\* child of it.
OtherRendering == B("i5", <<Group("a", NoContext, << >>)>>,
                    <<D(1, Float1, "f", << >>, << >>), D(1, Int1, "", << >>, <<"f">>)>>)

\* A group without drafts.
Empty == B("i6", <<Group("a", NoContext, << >>)>>, << >>)

\* Batches that fail, one for each check.
Malformed == [Family EXCEPT !.append_intent_id = "m", !.drafts[2].append_local_id = "x"]
NoSuchLocal == B("m", <<Group("a", NoContext, << >>)>>, <<D(1, Int1, "", << >>, <<"y">>)>>)
TwiceCaused == B("m", <<Group("a", NoContext, <<X>>)>>, <<D(1, Int1, "", <<X>>, << >>)>>)
ClaimsRoot  == B("m", <<Group("a", NoContext, << >>)>>,
                 <<[D(1, Int1, "", << >>, << >>) EXCEPT !.schema_ref = RootWitnessSchemaRef]>>)
BadContext  == B("m", <<Group("a", [form |-> "draft", content |->
                   [defaultContextDraft EXCEPT !.containment = "loose"]], << >>)>>,
                 <<D(1, Int1, "", << >>, << >>)>>)

LawAppends == {App(Trusted, Family), App(Trusted, FamilySpelled), App(Trusted, FamilyRelabelled),
               App(Trusted, Again), App(Agent, Again), App(Stranger, Again),
               App(Trusted, Child), App(Trusted, OnWitnessPath), App(Trusted, OtherRendering)}

\* The rejected batches, with the empty one and one that commits.
RefusedAppends == {App(Trusted, b) : b \in {Family, Empty, Malformed, NoSuchLocal,
                                            TwiceCaused, ClaimsRoot, BadContext}}

\* A batch that cites X, and the batch that retains it.
Citation == B("i7", <<Group("b", NoContext, <<X>>)>>, <<D(1, Int1, "", << >>, << >>)>>)
CitingAppends == {App(Trusted, Again), App(Trusted, Citation)}

\* A batch whose payload holds a float64.
FloatAppends == {App(Trusted, OtherRendering)}

-----------------------------------------------------------------------------
\* Frontiers: two cutoffs that claim one id, one cutoff published twice, and the
\* ones that are refused.  Again moves the place a frontier through X names.
Cut      == Pub("f1", "a", X, "", "", << >>)
SameCut  == Pub("f1", "a", X, "b", "i8", <<Y>>)
OtherCut == Pub("f1", "a", Y, "b", "i9", << >>)
WitnessCut == Pub("f2", witnessTraceOwnerID, RootWitnessRecordID, "b", "", << >>)
NamelessCut == Pub("", "a", X, "", "", << >>)
TwiceCausedCut == Pub("f3", "a", X, "", "", <<X>>)

\* An append of the batch that the second cutoff makes while X's last place is the
\* start of a.
ByHand == FrontierBatch(SameCut.spec, Trusted, 0)

FrontierAppends == {App(Trusted, Family), App(Trusted, Again), App(Trusted, ByHand)}
FrontierCalls == {Cut, SameCut, OtherCut, WitnessCut, NamelessCut, TwiceCausedCut}

RefusedCalls == {Cut, OtherCut, NamelessCut}

-----------------------------------------------------------------------------
(***************************************************************************)
(* A reader beside the writers.  The facts of a batch lie on two paths,    *)
(* one of them is appended again elsewhere, and a cut leaves a parent      *)
(* outside.                                                                *)
(***************************************************************************)
\* X on b, its child Y on c, and Z, declared by Y, on c.
Z == RecordDigest("s", Declaration, Int1.canon, <<Y>>, DefaultWitness)
Origin == B("r1", <<Group("b", NoContext, << >>), Group("c", NoContext, << >>)>>,
            <<D(1, Int1, "x", << >>, << >>), D(2, Int1, "y", << >>, <<"x">>),
              [D(2, Int1, "", << >>, <<"y">>) EXCEPT !.mode = Declaration]>>)

\* X once more, on a path that sorts before b.
Elsewhere == B("r2", <<Group("a", NoContext, << >>)>>, <<D(1, Int1, "", << >>, << >>)>>)

\* The cut of c through Y, whose parent lies outside it.
CutC == Pub("f", "c", Y, "", "", << >>)

-----------------------------------------------------------------------------
Full  == [visibility_profile |-> "payload", presented_authority_refs |-> {}]
Shape == [visibility_profile |-> "shape_only", presented_authority_refs |-> {}]
Untrusted == [visibility_profile |-> "full_internal", presented_authority_refs |-> {}]

PrefixOf(auth, owner, through, mode) ==
    [op |-> "prefix", auth |-> auth, owner |-> owner, through |-> through, mode_filter |-> mode]
ClosureOf(roots, mode, policy) ==
    [op |-> "closure", auth |-> Full, roots |-> roots, mode_filter |-> mode, policy |-> policy]
Resolve(auth, id, mode) ==
    [op |-> "frontier", auth |-> auth, frontier_id |-> id, mode_filter |-> mode]
FactOf(auth, id) == [op |-> "fact", auth |-> auth, fact_id |-> id]
ScanFor(refs) == [op |-> "scan", schema_refs |-> refs]

PrefixRequests ==
    {PrefixOf(Full, "", 9, "both"), PrefixOf(Full, "c", 1, "both"),
     PrefixOf(Shape, "c", 9, "declarations_only"), PrefixOf(Untrusted, "c", 1, "both"),
     FactOf(Full, X), ScanFor({"s"})}

ClosureRequests ==
    {ClosureOf(<<Z>>, "both", "visible_only"), ClosureOf(<<Y, Z>>, "declarations_only", "visible_only"),
     ClosureOf(<<Z>>, "declarations_only", "include_external_anchors"),
     Resolve(Full, "f", "both"), Resolve(Shape, "f", "captures_only")}

\* One closure whose walk meets a fact twice, and one read of each other kind.
EndRequests == {ClosureOf(<<Z, Y>>, "both", "visible_only"), PrefixOf(Full, "c", 9, "both"),
                FactOf(Full, Y), ScanFor({"t"})}

-----------------------------------------------------------------------------
CONSTANT Scenarios
VARIABLE scenario

AppsOf(batches) == {App(Trusted, b) : b \in batches}

AppendsIn ==
    [batches |-> LawAppends, cuts |-> FrontierAppends, refusals |-> RefusedAppends,
     prefixes |-> AppsOf({Origin, Elsewhere}), closures |-> AppsOf({Origin, Elsewhere}),
     endings |-> AppsOf({Origin}),
     citation |-> CitingAppends, float |-> FloatAppends]

PublishesIn == [s \in DOMAIN AppendsIn |->
    CASE s = "cuts" -> FrontierCalls [] s = "refusals" -> RefusedCalls [] s = "closures" -> {CutC}
      [] OTHER -> {}]

RequestsIn == [s \in DOMAIN AppendsIn |->
    CASE s = "prefixes" -> PrefixRequests [] s = "closures" -> ClosureRequests
      [] s = "endings" -> EndRequests [] OTHER -> {}]

MCAppends   == UNION {AppendsIn[s] : s \in Scenarios}
MCPublishes == UNION {PublishesIn[s] : s \in Scenarios}
MCRequests  == UNION {RequestsIn[s] : s \in Scenarios}

MCInit == ReadingInit /\ scenario \in Scenarios

\* A writer that is cancelled or dies changes no committed table: to a reader it is one
\* that has not come.
Undisturbed == (Begin \/ Step) /\ UNCHANGED readerVars

MCNext ==
    /\ \/ scenario \notin {"prefixes", "closures", "endings"} /\ Next /\ UNCHANGED readerVars
       \/ scenario \in {"prefixes", "closures", "endings"} /\ Undisturbed
       \/ ReaderNext /\ UNCHANGED vars
    /\ UNCHANGED scenario
    /\ call' # call => call' \in {NoCall} \cup AppendsIn[scenario] \cup PublishesIn[scenario]
    /\ req' # req => req' \in {NoRequest} \cup RequestsIn[scenario]

MCSpec == MCInit /\ [][MCNext]_<<allVars, scenario>>

\* Both goroutines keep running.
MCFairSpec == MCSpec /\ WF_vars(Step) /\ WF_allVars(ReadStep /\ UNCHANGED vars)

\* Every call ends and gives the mutex back, and every read ends beside it.
EveryCallEnds == LockIsReleased /\ ReadsEnd
=============================================================================
