--------------------------- MODULE YouTubePrefilter ---------------------------
(***************************************************************************)
(* The business prefilter of YouTube records: internal/uap/usecase,        *)
(* youtube_business_prefilter.go.  It scores a text by the terms found in  *)
(* the text itself and in its context, and keeps it from a score on.       *)
(*                                                                         *)
(* A text is what it says, as the set of term lists it has a term of, and  *)
(* its length in characters.  Scores are in hundredths.                    *)
(***************************************************************************)
EXTENDS Naturals

(* The six term lists.                                                     *)
Signals == {"brand", "logistics", "competitor", "crisis", "generic", "offtopic"}
Business == {"brand", "logistics", "competitor"}

Texts == [says : SUBSET Signals, len : Nat]
NoText == [says |-> {}, len |-> 0]

(* The prefilter is for logistics projects and for the brand's keywords.   *)
ShouldApply(domain, keywordSays) ==
  domain \in {"ahamove", "logistics"} \/ "brand" \in keywordSays

-----------------------------------------------------------------------------
Points(direct, points, inContext, contextPoints) ==
  IF direct THEN points ELSE IF inContext THEN contextPoints ELSE 0

Direct(text) == text.says \cap Business # {}
Silent(text) == ~ Direct(text) /\ "crisis" \notin text.says
Says(text, list) == list \in text.says

BrandPoints(text, ctx) == Points(Says(text, "brand"), 50, "brand" \in ctx, 22)
LogisticsPoints(text, ctx) == Points(Says(text, "logistics"), 28, "logistics" \in ctx, 10)

CompetitorPoints(text, ctx) ==
  Points(Says(text, "competitor") /\ (text.says \cup ctx) \cap {"brand", "logistics"} # {}, 16,
         {"competitor", "brand"} \subseteq ctx, 6)

CrisisPoints(text, ctx) ==
  Points(/\ Says(text, "crisis")
         /\ \/ (text.says \cup ctx) \cap {"brand", "logistics"} # {}
            \/ Says(text, "competitor"), 18,
         "crisis" \in ctx /\ text.says \cap {"brand", "logistics"} # {}, 8)

LengthPoints(text) == IF text.len >= 80 /\ Direct(text) THEN 6 ELSE 0

(* minYouTubeBusinessScore, where the cap applies.                         *)
Capped(score, applies, cap) == IF applies /\ score > cap THEN cap ELSE score

(* Mutant of CommentCap: the caps hold for every text.                     *)
CapForAll(isComment, text, ctx, score) ==
  Capped(score, isComment, IF ctx \cap Business # {} /\ text.len >= 20 THEN 34 ELSE 18)

(* What a comment gets from its video alone.                               *)
CommentCap(isComment, text, ctx, score) ==
  Capped(score, isComment /\ Silent(text),
         IF ctx \cap Business # {} /\ text.len >= 20 THEN 34 ELSE 18)

Score(isComment, text, ctx) ==
  LET sum == BrandPoints(text, ctx) + LogisticsPoints(text, ctx)
               + CompetitorPoints(text, ctx) + CrisisPoints(text, ctx) + LengthPoints(text)
      comment == CommentCap(isComment, text, ctx, sum)
      generic == Capped(comment, Says(text, "generic") /\ Silent(text), 12)
      offtopic == Capped(generic, Says(text, "offtopic") /\ Silent(text), 8)
  IN  Capped(offtopic, TRUE, 100)

(* evaluateYouTubeBusinessPrefilter                                        *)
Keep(isComment, text, ctx) ==
  LET score == Score(isComment, text, ctx)
  IN  /\ \/ score >= 45
         \/ Direct(text) /\ score >= 28
         \/ /\ Says(text, "crisis")
            /\ Direct(text) \/ ctx \cap Business # {}
            /\ score >= 22
      /\ ~ (isComment /\ Silent(text) /\ score < 45)

(* isYouTubeBusinessBoilerplate                                            *)
Boilerplate(text) == Says(text, "offtopic") /\ ~ Direct(text)

-----------------------------------------------------------------------------
(***************************************************************************)
(* What the scores amount to.  A text is about the business if it names    *)
(* the brand or logistics, or a crisis in their context, or a competitor   *)
(* next to the brand; of a competitor in a logistics context or a crisis,  *)
(* only a long text is.  The context alone never makes a text relevant.    *)
(***************************************************************************)
Relevant(text, ctx) ==
  \/ text.says \cap {"brand", "logistics"} # {}
  \/ Says(text, "crisis") /\ ctx \cap {"brand", "logistics"} # {}
  \/ /\ Says(text, "competitor")
     /\ \/ "brand" \in ctx
        \/ text.len >= 80 /\ ("logistics" \in ctx \/ Says(text, "crisis"))
==============================================================================
