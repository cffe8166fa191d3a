-------------------------- MODULE PackagingPolicy --------------------------
(***************************************************************************)
(* The deterministic packaging contract: what a candidate may become       *)
(* (single post, carousel, story, nothing) and which evidence its picture  *)
(* needs.  Pure operators on one request; the Draft Factory calls them.    *)
(***************************************************************************)
EXTENDS Naturals

MIN_CAROUSEL_BEATS == 3
CAROUSEL_SLIDE_FLOOR == 4
CAROUSEL_SLIDE_TARGET_CAP == 8
CAROUSEL_BEAT_TRIM_THRESHOLD == 6
CAROUSEL_SLIDE_OVERHEAD == 2

CONTENT_SHAPES == {"SINGLE_FACT", "ANNOUNCEMENT", "MULTI_STEP_EXPLAINER",
                   "COMPARISON", "ROUNDUP", "BREAKING_DEVELOPING",
                   "OPINION_ANALYSIS"}
CAROUSEL_NEVER_SHAPES == {"SINGLE_FACT", "BREAKING_DEVELOPING"}
FORMATS == {"SINGLE_POST", "CAROUSEL", "STORY", "SKIP"}
VISUAL_STYLES == {"REAL_PHOTO", "SOURCE_SCREENSHOT", "DATA_VISUALIZATION",
                  "EDITORIAL_TYPOGRAPHY", "GENERATED_ILLUSTRATION_ALLOWED",
                  "GENERATED_ILLUSTRATION_FORBIDDEN", "NONE"}

(***************************************************************************)
(* A validated request: the candidate's signals, then the asset signals.   *)
(* Enumerations the policy only tests for one value are Booleans: verified *)
(* (verification_status = PASS), weak (WEAK_UNCONFIRMED grounding), low    *)
(* (LOW audience), breaking (BREAKING timeliness), grounded                *)
(* (visual_requirement = SOURCE_GROUNDED).                                 *)
(***************************************************************************)
Request == [shape : CONTENT_SHAPES, beats : Nat,
            breaking : BOOLEAN, verified : BOOLEAN, weak : BOOLEAN,
            low : BOOLEAN, subject : BOOLEAN, developing : BOOLEAN,
            grounded : BOOLEAN,
            official : BOOLEAN, screenshot : BOOLEAN, ontopic : BOOLEAN,
            quality : BOOLEAN, dataviz : BOOLEAN]

AssetStrength(q) ==
    CASE q.official /\ q.ontopic /\ q.quality -> "STRONG_OFFICIAL"
      [] (q.official \/ q.screenshot) /\ q.ontopic
            /\ ~(q.official /\ q.quality)     -> "MODERATE"
      [] (q.official \/ q.screenshot) /\ ~q.ontopic -> "WEAK"
      [] ~(q.official \/ q.screenshot)        -> "NONE"

RealPhotoAvailable(q) == q.official /\ q.ontopic /\ q.quality

RealPhotoRequired(q) ==
    q.shape \in {"ANNOUNCEMENT", "BREAKING_DEVELOPING"} \/ q.subject \/ q.breaking

VisualEvidenceRequired(q) ==
    RealPhotoRequired(q) \/ q.shape \in {"COMPARISON", "ANNOUNCEMENT"}

FallbackVisualStyle(q) ==
    IF q.screenshot /\ q.ontopic THEN "SOURCE_SCREENSHOT"
    ELSE IF q.dataviz THEN "DATA_VISUALIZATION" ELSE "NONE"

ResolveVisualStyle(q) ==
    LET strength == AssetStrength(q) IN
    IF strength = "STRONG_OFFICIAL" THEN "REAL_PHOTO"
    ELSE IF strength = "MODERATE" /\ q.screenshot THEN "SOURCE_SCREENSHOT"
    ELSE IF q.dataviz THEN "DATA_VISUALIZATION"
    ELSE IF ~VisualEvidenceRequired(q) /\ strength = "NONE"
         THEN "EDITORIAL_TYPOGRAPHY" ELSE "GENERATED_ILLUSTRATION_ALLOWED"

CarouselAllowed(q) ==
    /\ q.shape \notin CAROUSEL_NEVER_SHAPES
    /\ ~q.breaking
    /\ q.beats >= MIN_CAROUSEL_BEATS

SlideCountRecommendation(beats) ==
    LET trimmed == IF beats < CAROUSEL_BEAT_TRIM_THRESHOLD
                   THEN beats ELSE CAROUSEL_BEAT_TRIM_THRESHOLD
        slides == trimmed + CAROUSEL_SLIDE_OVERHEAD
    IN  IF slides < CAROUSEL_SLIDE_FLOOR THEN CAROUSEL_SLIDE_FLOOR
        ELSE IF slides > CAROUSEL_SLIDE_TARGET_CAP
             THEN CAROUSEL_SLIDE_TARGET_CAP ELSE slides

\* The format once no gate refused the candidate.
DecideFormat(q) ==
    LET many == q.breaking /\ q.beats >= MIN_CAROUSEL_BEATS IN
    CASE q.shape = "SINGLE_FACT" ->
            IF q.breaking /\ q.developing THEN "STORY" ELSE "SINGLE_POST"
      [] q.shape = "BREAKING_DEVELOPING" ->
            IF q.developing THEN "STORY" ELSE "SINGLE_POST"
      [] q.shape = "ANNOUNCEMENT" ->
            IF CarouselAllowed(q) THEN "CAROUSEL"
            ELSE IF q.beats > 1 /\ q.breaking THEN "STORY" ELSE "SINGLE_POST"
      [] q.shape = "COMPARISON" ->
            IF CarouselAllowed(q) THEN "CAROUSEL" ELSE "STORY"
      [] q.shape = "ROUNDUP" ->
            IF CarouselAllowed(q) THEN "CAROUSEL"
            ELSE IF many THEN "STORY" ELSE "SINGLE_POST"
      [] q.shape = "MULTI_STEP_EXPLAINER" ->
            IF CarouselAllowed(q) THEN "CAROUSEL"
            ELSE IF q.breaking THEN "STORY" ELSE "SINGLE_POST"
      [] q.shape = "OPINION_ANALYSIS" ->
            IF CarouselAllowed(q) THEN "CAROUSEL" ELSE "SINGLE_POST"

Skip(style) == [format |-> "SKIP", style |-> style, slides |-> 0]

(***************************************************************************)
(* evaluate_packaging: the gates in the code's order (verification,        *)
(* grounding, audience, evidence with its fallback ladder), then the       *)
(* format and the style.  slides is 0 unless the format is CAROUSEL.       *)
(***************************************************************************)
EvaluatePackaging(q) ==
    LET missing == VisualEvidenceRequired(q) /\ ~RealPhotoAvailable(q)
        format == DecideFormat(q)
    IN  IF ~q.verified \/ q.weak \/ (q.low /\ q.shape # "BREAKING_DEVELOPING")
        THEN Skip("NONE")
        ELSE IF missing /\ FallbackVisualStyle(q) = "NONE"
        THEN Skip("GENERATED_ILLUSTRATION_FORBIDDEN")
        ELSE [format |-> format,
              style  |-> IF missing THEN FallbackVisualStyle(q)
                                    ELSE ResolveVisualStyle(q),
              slides |-> IF format = "CAROUSEL"
                         THEN SlideCountRecommendation(q.beats) ELSE 0]

\* The evaluator refuses a layout that promises evidence when the request has
\* none, before any receipt exists.
VisualEvidenceAvailable(q) == q.official \/ q.screenshot \/ q.dataviz
GroundingUnmet(q) == q.grounded /\ ~VisualEvidenceAvailable(q)

\* What a decision says of the asset descriptor that may be rendered under it.
AssetKindOf(style) ==
    CASE style \in {"REAL_PHOTO", "SOURCE_SCREENSHOT", "DATA_VISUALIZATION"} -> style
      [] style \in {"EDITORIAL_TYPOGRAPHY", "GENERATED_ILLUSTRATION_ALLOWED"} -> "NONE"
      [] OTHER -> "FORBIDDEN"

AssetKinds == {"REAL_PHOTO", "SOURCE_SCREENSHOT", "DATA_VISUALIZATION", "NONE"}

ValidAsset(q, kind) ==
    LET style == EvaluatePackaging(q).style IN
    /\ kind = AssetKindOf(style)
    /\ RealPhotoRequired(q) => kind # "NONE"

\* What the renderer accepts of a decision and an asset.
Renderable(q, kind) ==
    LET d == EvaluatePackaging(q) IN
    /\ d.format \in {"SINGLE_POST", "CAROUSEL"}
    /\ ValidAsset(q, kind)
    /\ ~(q.grounded /\ kind = "NONE")
    /\ d.style # "GENERATED_ILLUSTRATION_ALLOWED"
=============================================================================
