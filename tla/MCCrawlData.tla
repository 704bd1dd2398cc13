------------------------------ MODULE MCCrawlData ------------------------------
(* Values of the constants of CrawlData for model checking.                *)
EXTENDS CrawlData

MCTrimSpace(v) == CASE v = " " -> "" [] v = " aha" -> "aha" [] OTHER -> v
MCWithoutAt(v) == CASE v = "@" -> "" [] v = "@shop" -> "shop" [] OTHER -> v
MCIsURL(v) == v \in {"https://page/100", "https://page/shop", "https://profile/@shop"}
MCIsNumeric(v) == v \in {"100", "200", "300"}
MCPageIdInUrl(v) == IF v = "https://page/100" THEN "100" ELSE ""
MCUsernameInUrl(v) == IF v = "https://profile/@shop" THEN "shop" ELSE ""
MCKeywordSays(v) ==
  CASE v = "aha" -> {"brand"} [] v = "ship" -> {"logistics"} [] OTHER -> {}

MCStrings ==
  {"", " ", "aha", " aha", "ship", "other", "@", "@shop", "shop", "https://page/100",
   "https://page/shop", "https://profile/@shop", "100", "200", "300", "s1", "s2", "x", "1", "2"}

NoMeta == [page_ids |-> <<>>, page_id |-> "", sec_uids |-> <<>>, sec_uid |-> "",
           usernames |-> <<>>, username |-> "", parse_ids |-> <<>>]
PageMetas ==
  {[NoMeta EXCEPT !.page_ids = ids, !.page_id = id] :
     ids \in {<<"200">>, <<"200", "300">>, <<" ", "300">>, <<NotAString, "x">>}, id \in {"", "100"}}
ProfileMetas ==
  {[NoMeta EXCEPT !.sec_uids = ids, !.usernames = names, !.username = name] :
     ids \in {<<>>, <<"s1", "s2">>, <<" ", "s2">>}, names \in {<<>>, <<"@", "@shop">>},
     name \in {"", "@shop"}}
PostMetas ==
  {[NoMeta EXCEPT !.parse_ids = ids] :
     ids \in {<<"1", " ">>, <<"1", "2">>, <<" ">>, <<"1", NotAString>>}}

Urls == {"https://page/100", "https://page/shop", "https://profile/@shop", " ", "aha"}

MCInputs ==
  [type : {"KEYWORD"}, values : BoundedSeq({"aha", " aha", "ship", "other", " "}, 3), meta : {NoMeta}]
  \cup [type : {"PROFILE"}, values : BoundedSeq(Urls, 2), meta : {NoMeta} \cup PageMetas \cup ProfileMetas]
  \cup [type : {"POST_URL"}, values : BoundedSeq(Urls, 1), meta : {NoMeta} \cup PostMetas]

MCEditedMetas == {[NoMeta EXCEPT !.page_ids = <<"300">>, !.parse_ids = <<"2">>]}

-----------------------------------------------------------------------------
Bundle(post, detail, text, channel, comments) ==
  [post |-> post, detail |-> detail, text |-> text, channel |-> channel, comments |-> comments]
Comment(id, text, replies) == [id |-> id, text |-> text, replies |-> replies]

(* Artefacts of posts: ids that are missing or that two of them share.     *)
Thread == [id : {" ", "1"}, text : {NoText}, replies : {<<>>, <<"1">>, <<" ", "2">>}]
PostArtefacts ==
  {<<Bundle(post, detail, NoText, {}, comments), Bundle("2", "", NoText, {}, <<Comment("2", NoText, <<>>)>>)>> :
     post \in {"1", " "}, detail \in {"", "1"}, comments \in BoundedSeq(Thread, 2)}

(* Artefacts of videos: every text of a comment under videos that say one  *)
(* thing or two, and every text of a video by channels that say one.       *)
SaysUpTo(n) == {says \in SUBSET Signals : Cardinality(says) <= n}
VideoArtefacts ==
  {<<Bundle("1", "", [says |-> video, len |-> 20], {}, <<Comment("1", [says |-> says, len |-> len], <<>>)>>)>> :
     video \in SaysUpTo(2), says \in SUBSET Signals, len \in {79, 80}}
  \cup
  {<<Bundle("1", "", [says |-> says, len |-> len], channel, <<Comment(" ", NoText, <<>>)>>)>> :
     says \in SUBSET Signals, len \in {79, 80}, channel \in SaysUpTo(1)}

(* Crawlers answer the tasks of a few targets.                             *)
MCArtefacts(platform_, of, spec) ==
  IF of.entered \notin {<<"aha", "ship">>, <<"other">>, <<"https://page/100">>, <<"https://page/100", "https://page/shop">>,
                        <<"https://profile/@shop">>} THEN {}
  ELSE IF platform_ = "YOUTUBE" THEN VideoArtefacts ELSE PostArtefacts
==============================================================================
