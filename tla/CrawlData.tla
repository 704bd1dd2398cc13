------------------------------- MODULE CrawlData -------------------------------
(***************************************************************************)
(* The way of one target's data through the service: a user enters the     *)
(* target, tries it with a dry run, and it is dispatched; crawlers answer  *)
(* a task with an artefact, which becomes records on the topic.  When and  *)
(* whether these steps happen is the subject of Execution, DueTargets,     *)
(* RawBatchPipeline and DataSourceLifecycle; here it is what they hand on. *)
(***************************************************************************)
EXTENDS UapRecords

CONSTANTS
  Domains,           \* the project's domain_type_code
  Inputs,            \* what users enter: a type, values and platform_meta
  EditedMetas,       \* what users change platform_meta to
  MaxEdits,          \* bound on the edits of the target
  Artefacts(_, _, _) \* artefacts by platform, target and spec; bounds the run

TargetTypes == {"KEYWORD", "PROFILE", "POST_URL"}
Metas ==
  LET Entries == Strings \cup {NotAString}
  IN  [page_ids : Seq(Entries), page_id : Entries, sec_uids : Seq(Entries), sec_uid : Entries,
       usernames : Seq(Entries), username : Entries, parse_ids : Seq(Entries)]

Comments == [id : Strings, text : Texts, replies : Seq(Strings)]
Bundles == [post : Strings, detail : Strings, text : Texts, channel : SUBSET Signals,
            comments : Seq(Comments)]

ASSUME InputsAssumption ==
  /\ Inputs \subseteq [type : TargetTypes, values : Seq(Strings), meta : Metas]
  /\ EditedMetas \subseteq Metas
  /\ MaxEdits \in Nat

VARIABLES
  platform,   \* source_type and domain of the data source
  domain,
  target,     \* the row of crawl_targets, and the values as entered
  edits,
  sampled,    \* the last dry run: the target it saw and what it asked for
  job,        \* the scheduled job: the target it saw and its tasks' payloads
  batch,      \* the raw batch in work: its artefact, and what was asked for
  parsed,     \* how many bundles of it have been parsed
  records     \* the records published

vars == <<platform, domain, target, edits, sampled, job, batch, parsed, records>>

(* createTarget, for one of its three target types.                        *)
CreateTarget(input) ==
  LET values == PrepareTargetValues(input.type, input.values)
  IN  /\ target = None
      /\ values # <<>>
      /\ target' = [type |-> input.type, values |-> values, meta |-> input.meta,
                    entered |-> input.values]
      /\ UNCHANGED <<platform, domain, edits, sampled, job, batch, parsed, records>>

(* UpdateTarget: values are immutable, platform_meta is not.               *)
UpdateTarget(meta) ==
  /\ target # None
  /\ edits < MaxEdits
  /\ edits' = edits + 1
  /\ target' = [target EXCEPT !.meta = meta]
  /\ UNCHANGED <<platform, domain, sampled, job, batch, parsed, records>>

(* Trigger of a dry run.                                                   *)
Trigger ==
  /\ target # None
  /\ sampled' = [of |-> target, specs |-> DryrunSpec(platform, target)]
  /\ UNCHANGED <<platform, domain, target, edits, job, batch, parsed, records>>

(* dispatchPrepared: a task's payload is the spec it was made from.        *)
DispatchTarget ==
  /\ target # None
  /\ job = None
  /\ job' = [of |-> target, tasks |-> BuildDispatchSpecs(platform, target)]
  /\ UNCHANGED <<platform, domain, target, edits, sampled, batch, parsed, records>>

(* A crawler answers a task it was asked.  One artefact is followed: the   *)
(* parsing of another one has no part in it.                               *)
CrawlerAnswers ==
  /\ job # None /\ batch = None
  /\ \E i \in DOMAIN job.tasks :
       \E artefact \in Artefacts(platform, job.of, job.tasks[i]) :
         /\ artefact \in Seq(Bundles)
         /\ batch' = [task |-> i, asked |-> job.tasks[i], artefact |-> artefact]
  /\ UNCHANGED <<platform, domain, target, edits, sampled, job, parsed, records>>

(* Mutant of RequestPayload: the payload of the job, not of the task.      *)
JobPayload == job.tasks[1]

(* The request payload of the external task the answer belongs to.         *)
RequestPayload == job.tasks[batch.task]

(* One bundle: its records are made and handed to the topic in order.      *)
ParseBundle ==
  /\ batch # None
  /\ SupportsParse(platform, batch.asked.action)
  /\ parsed < Len(batch.artefact)
  /\ parsed' = parsed + 1
  /\ LET made == BundleRecords(platform, domain, RequestPayload, batch.artefact[parsed + 1])
     IN  records' = records \o
           [i \in DOMAIN made |-> WithIngestAttribution(made[i], RequestPayload)]
  /\ UNCHANGED <<platform, domain, target, edits, sampled, job, batch>>

-----------------------------------------------------------------------------
Init ==
  /\ platform \in Platforms /\ domain \in Domains
  /\ target = None /\ edits = 0
  /\ sampled = None /\ job = None /\ batch = None
  /\ parsed = 0 /\ records = <<>>

Next ==
  \/ \E input \in Inputs : CreateTarget(input)
  \/ \E meta \in EditedMetas : UpdateTarget(meta)
  \/ Trigger \/ DispatchTarget \/ CrawlerAnswers \/ ParseBundle

Spec == Init /\ [][Next]_vars

-----------------------------------------------------------------------------
(***************************************************************************)
(* Properties.                                                             *)
(***************************************************************************)
Entered(of) == NonBlank(TrimmedAll(of.entered))
WithoutGaps(entries) == \A e \in ToSet(entries) : StringMeta(e) # ""

(* Of what a user enters nothing is forgotten and nothing is crawled twice:*)
(* each keyword has one task, however often and with whatever blanks it is *)
(* entered, and each profile has its own.  The i-th id in platform_meta    *)
(* goes with the i-th profile, if the user leaves no entry blank.          *)
EveryValueHasItsTask ==
  job # None /\ job.tasks # <<>> =>
    /\ job.of.type = "KEYWORD" =>
         /\ {spec.params.keyword : spec \in ToSet(job.tasks)} = ToSet(Entered(job.of))
         /\ Len(job.tasks) = Cardinality(ToSet(Entered(job.of)))
    /\ job.of.type = "PROFILE" =>
         /\ [i \in DOMAIN job.tasks |-> job.tasks[i].params.profile_url] = Entered(job.of)
         /\ platform = "FACEBOOK" /\ WithoutGaps(job.of.meta.page_ids) =>
              \A i \in DOMAIN job.tasks \cap DOMAIN job.of.meta.page_ids :
                job.tasks[i].params.page_id = TrimSpace(job.of.meta.page_ids[i])
         /\ platform = "TIKTOK" /\ WithoutGaps(job.of.meta.sec_uids) =>
              \A i \in DOMAIN job.tasks \cap DOMAIN job.of.meta.sec_uids :
                job.tasks[i].params.sec_uid = TrimSpace(job.of.meta.sec_uids[i])

(* A dry run is evidence for the dispatch of the target it has seen: what  *)
(* it has asked for is the first thing the dispatch asks for, and it is    *)
(* refused if and only if the dispatch is, although the two packages have  *)
(* each their own copy of the mapping.  Profiles have no dry run.          *)
DryrunPredictsDispatch ==
  sampled # None /\ job # None /\ sampled.of = job.of =>
    /\ sampled.specs # <<>> => job.tasks # <<>> /\ job.tasks[1] = sampled.specs[1]
    /\ job.of.type # "PROFILE" => (sampled.specs = <<>>) = (job.tasks = <<>>)

(* The prefilter loses nothing that is about the business and publishes    *)
(* nothing else: of the bundles parsed so far there are exactly the videos *)
(* and comments that are about it, and the videos that only have comments  *)
(* that are.                                                               *)
About(bundle, comment) ==
  ~ Blank(comment.id) /\ Relevant(comment.text, CommentContext(batch.asked, bundle))
AboutBusiness(bundle) ==
  \/ Relevant(bundle.text, PostContext(batch.asked, bundle))
  \/ /\ \E c \in ToSet(bundle.comments) : About(bundle, c)
     /\ ~ Boilerplate(bundle.text)
BusinessIds(bundle) ==
  {UapId("yt_c_", c.id) : c \in {c \in ToSet(bundle.comments) : About(bundle, c)}}
    \cup {UapId("yt_p_", b.post) : b \in {b \in {bundle} : AboutBusiness(b)}}
BusinessIsPublished ==
  platform = "YOUTUBE" /\ batch # None /\ Prefiltered(domain, batch.asked) =>
    LET Parsed == ToSet(SubSeq(batch.artefact, 1, parsed))
    IN  {r.record.id : r \in ToSet(records)}
          = UNION {BusinessIds(b) : b \in {b \in Parsed : ~ Blank(b.post)}}

(* A record tells what it was crawled for: the keyword or profile the      *)
(* crawler was asked for, which is one the user entered, whatever other    *)
(* tasks the job has and whatever the target says by now.                  *)
RecordsTraceToTask ==
  \A r \in ToSet(records) :
    /\ r.source_kind = "keyword_search" =>
         /\ r.keyword = batch.asked.params.keyword
         /\ r.keyword \in ToSet(Entered(job.of))
    /\ r.source_kind # "keyword_search" =>
         /\ r.smap = batch.asked.params
         /\ r.smap.profile_url \in ToSet(Entered(job.of))
==============================================================================
