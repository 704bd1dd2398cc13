----------------------------- MODULE DispatchSpecs -----------------------------
(***************************************************************************)
(* From what a user enters for a target to the tasks crawlers get.         *)
(* internal/datasource prepares the values of a target;                    *)
(* internal/execution makes one spec of a task for each of them, and       *)
(* internal/dryrun, with helpers of its own, one spec for a sample.        *)
(*                                                                         *)
(* A value is a string.  "" is an absent or blank one, and an error is the *)
(* empty sequence: no caller tells these errors apart.  Limits and counts  *)
(* of a task's params are left out.                                        *)
(***************************************************************************)
EXTENDS Naturals, Sequences, SequencesExt

CONSTANTS
  Strings,            \* the strings that users, crawlers and platform_meta give
  TrimSpace(_),       \* strings.TrimSpace
  WithoutAt(_),       \* strings.TrimPrefix(_, "@")
  IsURL(_),           \* url.ParseRequestURI accepts it, with scheme and host
  IsNumeric(_),       \* numericFacebookIDPattern
  PageIdInUrl(_),     \* extractFacebookPageIDFromURL, "" without one
  UsernameInUrl(_),   \* extractTikTokUsernameFromURL, "" without one
  NotAString          \* an entry of platform_meta that is no JSON string

ASSUME TrimAssumption ==
  /\ "" \in Strings /\ TrimSpace("") = ""
  /\ \A v \in Strings : TrimSpace(v) \in Strings /\ TrimSpace(TrimSpace(v)) = TrimSpace(v)

(* The entries at a set of positions, in order: what a loop has appended   *)
(* that skips the other ones.                                              *)
EntriesAt(values, positions) ==
  [k \in 1..Cardinality(positions) |->
     values[CHOOSE i \in positions : Cardinality({j \in positions : j < i}) = k - 1]]

NonBlank(values) == EntriesAt(values, {i \in DOMAIN values : values[i] # ""})
TrimmedAll(values) == [i \in DOMAIN values |-> TrimSpace(values[i])]
FirstNonEmpty(values) == IF NonBlank(values) = <<>> THEN "" ELSE NonBlank(values)[1]
Entry(values, i) == IF i \in DOMAIN values THEN values[i] ELSE ""

-----------------------------------------------------------------------------
(* The values of a target.                                                 *)
Distinct(values) ==
  EntriesAt(values, {i \in DOMAIN values : \A j \in 1..(i - 1) : values[j] # values[i]})

(* Mutant of NormalizeTargetValues: keywords are not deduplicated.         *)
NormalizeOnly(values, dedupe) == NonBlank(TrimmedAll(values))

NormalizeTargetValues(values, dedupe) ==
  LET trimmed == NonBlank(TrimmedAll(values))
  IN  IF dedupe THEN Distinct(trimmed) ELSE trimmed

PrepareTargetValues(type, values) ==
  LET normalized == NormalizeTargetValues(values, type = "KEYWORD")
  IN  IF type # "KEYWORD" /\ \E v \in ToSet(normalized) : ~ IsURL(v)
      THEN <<>> ELSE normalized

-----------------------------------------------------------------------------
(* platform_meta: a record of strings and lists, "" and <<>> when absent.  *)
StringMeta(entry) == IF entry = NotAString THEN "" ELSE TrimSpace(entry)

(* Blank entries are dropped: those behind them move up.                   *)
StringSliceMeta(entries) ==
  NonBlank([i \in DOMAIN entries |-> StringMeta(entries[i])])

(* Mutant of ParseIDs: a blank id is an error.                             *)
ParseIDsStrict(meta) ==
  LET ids == TrimmedAll(meta.parse_ids)
  IN  IF \E id \in ToSet(meta.parse_ids) : id = NotAString \/ TrimSpace(id) = ""
      THEN <<>> ELSE ids

(* parseFacebookParseIDs                                                   *)
ParseIDs(meta) ==
  IF NotAString \in ToSet(meta.parse_ids) THEN <<>>
  ELSE NonBlank(TrimmedAll(meta.parse_ids))

(* resolveFacebookPageTargets, for the i-th value                          *)
FacebookPageID(target, i) ==
  FirstNonEmpty(<<Entry(StringSliceMeta(target.meta.page_ids), i),
                  StringMeta(target.meta.page_id),
                  PageIdInUrl(target.values[i])>>)

(* resolveTikTokProfileTargets, for the i-th value                         *)
SecUID(target, i) ==
  FirstNonEmpty(<<Entry(StringSliceMeta(target.meta.sec_uids), i),
                  StringMeta(target.meta.sec_uid)>>)
MetaUsername(target, i) ==
  FirstNonEmpty(<<WithoutAt(Entry(StringSliceMeta(target.meta.usernames), i)),
                  WithoutAt(StringMeta(target.meta.username))>>)
Username(target, i) ==
  IF MetaUsername(target, i) = "" /\ SecUID(target, i) = ""
  THEN UsernameInUrl(target.values[i]) ELSE MetaUsername(target, i)

-----------------------------------------------------------------------------
(* buildDispatchSpecs                                                      *)
Platforms == {"TIKTOK", "FACEBOOK", "YOUTUBE"}

KeywordSpec(keyword) == [action |-> "full_flow", params |-> [keyword |-> keyword]]
PageSpec(target, i) ==
  [action |-> "page_full_flow",
   params |-> [page_id |-> FacebookPageID(target, i), profile_url |-> TrimSpace(target.values[i])]]
ProfileSpec(target, i) ==
  [action |-> "user_full_flow",
   params |-> IF SecUID(target, i) # ""
              THEN [sec_uid |-> SecUID(target, i), profile_url |-> TrimSpace(target.values[i])]
              ELSE [username |-> Username(target, i), profile_url |-> TrimSpace(target.values[i])]]
PostDetailSpec(ids) == [action |-> "post_detail", params |-> [parse_ids |-> ids]]

KeywordSpecs(target) ==
  [i \in DOMAIN NonBlank(TrimmedAll(target.values)) |->
     KeywordSpec(NonBlank(TrimmedAll(target.values))[i])]

FacebookPages(target) ==
  IF \A i \in DOMAIN target.values : IsNumeric(FacebookPageID(target, i))
  THEN [i \in DOMAIN target.values |-> PageSpec(target, i)] ELSE <<>>

TikTokProfiles(target) ==
  IF \A i \in DOMAIN target.values : SecUID(target, i) # "" \/ Username(target, i) # ""
  THEN [i \in DOMAIN target.values |-> ProfileSpec(target, i)] ELSE <<>>

PostDetails(ids) == IF ids = <<>> THEN <<>> ELSE <<PostDetailSpec(ids)>>

BuildDispatchSpecs(platform, target) ==
  CASE target.type = "KEYWORD" -> KeywordSpecs(target)
    [] platform = "FACEBOOK" /\ target.type = "PROFILE" -> FacebookPages(target)
    [] platform = "TIKTOK" /\ target.type = "PROFILE" -> TikTokProfiles(target)
    [] platform = "FACEBOOK" /\ target.type = "POST_URL" -> PostDetails(ParseIDs(target.meta))
    [] OTHER -> <<>>

-----------------------------------------------------------------------------
(* The dry run: buildDispatchSpec and the helpers of internal/dryrun.      *)
DryrunKeywords(target) == NonBlank(TrimmedAll(target.values))

DryrunParseIDs(meta) ==
  IF NotAString \in ToSet(meta.parse_ids) THEN <<>>
  ELSE NonBlank(TrimmedAll(meta.parse_ids))

DryrunSpec(platform, target) ==
  CASE target.type = "KEYWORD" ->
         IF DryrunKeywords(target) = <<>> THEN <<>>
         ELSE <<KeywordSpec(DryrunKeywords(target)[1])>>
    [] platform = "FACEBOOK" /\ target.type = "POST_URL" ->
         PostDetails(DryrunParseIDs(target.meta))
    [] OTHER -> <<>>
==============================================================================
