------------------------------ MODULE UapRecords ------------------------------
(***************************************************************************)
(* From a crawled artefact to UAP records: the platform parsers and the    *)
(* attribution in internal/uap/usecase.                                    *)
(*                                                                         *)
(* An artefact is a sequence of bundles, one for each post or video:       *)
(*   post      the id the crawler gives the post ("" when it is missing)   *)
(*   detail    the id in TikTok's detail of the post                       *)
(*   text      what title, description, subtitle and keywords say          *)
(*   channel   what the names of its author say                            *)
(*   comments  each with an id, a text, and the ids of its replies         *)
(* Other fields are copied or formatted one by one and are left out.       *)
(***************************************************************************)
EXTENDS YouTubePrefilter, DispatchSpecs

CONSTANTS
  KeywordSays(_),  \* the term lists a crawl keyword has a term of
  None             \* "no parent"

ASSUME KeywordSaysAssumption == \A v \in Strings : KeywordSays(v) \subseteq Signals

(* The keys of params that attribution copies.                             *)
AttributionKeys == {"page_id", "profile_url", "username", "sec_uid", "keyword"}
Attribution(spec) ==
  [k \in DOMAIN spec.params \cap AttributionKeys |-> spec.params[k]]

(* resolveSourceKind                                                       *)
SourceKind(spec) ==
  CASE spec.action = "page_full_flow" -> "focused_page"
    [] spec.action = "user_full_flow" -> "focused_profile"
    [] spec.action = "full_flow" -> "keyword_search"
    [] OTHER -> spec.action

(* extractCrawlKeyword                                                     *)
CrawlKeyword(spec) ==
  IF "keyword" \in DOMAIN spec.params THEN spec.params.keyword ELSE ""

(* buildUAPID: the id of a record is a prefix with the crawler's id.       *)
UapId(prefix, origin) == <<prefix, TrimSpace(origin)>>
Blank(origin) == TrimSpace(origin) = ""

Record(type, prefix, origin, parent, root) ==
  [type |-> type, id |-> UapId(prefix, origin), parent |-> parent, root |-> root]

Post(prefix, origin) ==
  Record("post", prefix, origin, None, UapId(prefix, origin))

-----------------------------------------------------------------------------
(* flattenTikTokFullFlow                                                   *)
TikTokReply(reply, comment, root) ==
  IF Blank(reply) THEN <<>>
  ELSE <<Record("reply", "tt_r_", reply, UapId("tt_c_", comment.id), root)>>

TikTokComment(comment, root) ==
  IF Blank(comment.id) THEN <<>>
  ELSE <<Record("comment", "tt_c_", comment.id, root, root)>>
         \o FlattenSeq([i \in DOMAIN comment.replies |->
                          TikTokReply(comment.replies[i], comment, root)])

TikTokBundle(bundle) ==
  LET origin == FirstNonEmpty(TrimmedAll(<<bundle.detail, bundle.post>>))
  IN  IF origin = "" THEN <<>>
      ELSE <<Post("tt_p_", origin)>>
             \o FlattenSeq([i \in DOMAIN bundle.comments |->
                  TikTokComment(bundle.comments[i], UapId("tt_p_", origin))])

(* flattenFacebookFullFlow, which keeps no replies                         *)
FacebookBundle(bundle) ==
  IF Blank(bundle.post) THEN <<>>
  ELSE <<Post("fb_p_", bundle.post)>>
         \o FlattenSeq([i \in DOMAIN bundle.comments |->
              IF Blank(bundle.comments[i].id) THEN <<>>
              ELSE <<Record("comment", "fb_c_", bundle.comments[i].id,
                            UapId("fb_p_", bundle.post), UapId("fb_p_", bundle.post))>>])

-----------------------------------------------------------------------------
(* buildYouTubeBusinessContext: a post's context is its keyword and author,*)
(* a comment's the keyword and its video with the author of it.            *)
PostContext(spec, bundle) == KeywordSays(CrawlKeyword(spec)) \cup bundle.channel
CommentContext(spec, bundle) == PostContext(spec, bundle) \cup bundle.text.says

Prefiltered(domain, spec) == ShouldApply(domain, KeywordSays(CrawlKeyword(spec)))

KeptPost(domain, spec, bundle) ==
  Prefiltered(domain, spec) => Keep(FALSE, bundle.text, PostContext(spec, bundle))
KeptComment(domain, spec, bundle, comment) ==
  /\ ~ Blank(comment.id)
  /\ Prefiltered(domain, spec) => Keep(TRUE, comment.text, CommentContext(spec, bundle))

YouTubeComments(domain, spec, bundle) ==
  LET kept == EntriesAt(bundle.comments,
                {i \in DOMAIN bundle.comments :
                   KeptComment(domain, spec, bundle, bundle.comments[i])})
  IN  [i \in DOMAIN kept |->
         Record("comment", "yt_c_", kept[i].id,
                UapId("yt_p_", bundle.post), UapId("yt_p_", bundle.post))]

(* A video that is not kept itself is published for its comments, unless   *)
(* it is boilerplate.                                                      *)
YouTubePost(domain, spec, bundle) ==
  IF \/ KeptPost(domain, spec, bundle)
     \/ YouTubeComments(domain, spec, bundle) # <<>> /\ ~ Boilerplate(bundle.text)
  THEN <<Post("yt_p_", bundle.post)>> ELSE <<>>

(* flattenYouTubeFullFlow                                                  *)
YouTubeBundle(domain, spec, bundle) ==
  IF Blank(bundle.post) THEN <<>>
  ELSE YouTubePost(domain, spec, bundle) \o YouTubeComments(domain, spec, bundle)

-----------------------------------------------------------------------------
(* The parsers registered for a platform and an action.                    *)
SupportsParse(platform, action) ==
  <<platform, action>> \in
    {<<"TIKTOK", "full_flow">>, <<"TIKTOK", "user_full_flow">>, <<"YOUTUBE", "full_flow">>,
     <<"FACEBOOK", "full_flow">>, <<"FACEBOOK", "page_full_flow">>}

BundleRecords(platform, domain, spec, bundle) ==
  CASE platform = "TIKTOK" -> TikTokBundle(bundle)
    [] platform = "FACEBOOK" -> FacebookBundle(bundle)
    [] platform = "YOUTUBE" -> YouTubeBundle(domain, spec, bundle)

(* withIngestAttribution                                                   *)
WithIngestAttribution(record, spec) ==
  [record |-> record, keyword |-> CrawlKeyword(spec),
   source_kind |-> SourceKind(spec), smap |-> Attribution(spec)]
==============================================================================
