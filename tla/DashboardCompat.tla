--------------------------- MODULE DashboardCompat ---------------------------
(***************************************************************************)
(* clashfx-compat.js in the life of one dashboard document: the wrapped     *)
(* getComputedStyle that answers theme previews, the test whether WebKit    *)
(* renders color-mix(), and, where it does not, a style sheet that is       *)
(* rebuilt as the page changes its classes and its theme.                   *)
(*                                                                         *)
(* An action is one turn of the event loop with its microtasks, so the two  *)
(* mutation observers run in the turn of the change they observe.  Of the   *)
(* page the model keeps the classes that are present, data-theme and the    *)
(* theme it would otherwise prefer; of a rule, its colours.  A second       *)
(* evaluation of the script finds its diagnostics and returns: a stutter.   *)
(*                                                                         *)
(* An operator named D_<Fault> is the definition D with a plausible bug in *)
(* it.  No action uses one: each shows that some property would notice.    *)
(***************************************************************************)
EXTENDS DashboardColors, FiniteSets

CONSTANTS
    Engines,         \* what WebKit may be like
    Stylesheet,      \* bundled CSS: theme -> notation -> variable -> text
    FirstThemes,     \* data-theme when the script is evaluated
    DocumentThemes,  \* the values data-theme is changed to
    PageClasses,     \* the sets of classes the page may show
    MaxChanges,      \* bound on changes of the page
    MaxPreviews      \* bound on the theme previews asked for

NoTheme == "none"

ASSUME CompatAssumption ==
    /\ {"light", "dark"} \subseteq DOMAIN Stylesheet
    /\ NoTheme \notin DOMAIN Stylesheet
    /\ {MaxChanges, MaxPreviews} \subseteq Nat
    /\ \A class \in UNION PageClasses : class.alpha \in Nat

VARIABLES
    engine,     \* the engine that shows the page
    page,       \* the document: loading, theme, preferred, classes
    compat,     \* diagnostics, and whether DOMContentLoaded is waited for
    styles,     \* the closure of installLegacyColorFallbacks and its style sheet
    previews,   \* themeProbe, the batch under way and its timer
    asked,      \* history: theme previews answered
    changes     \* changes made to the page

vars == <<engine, page, compat, styles, previews, asked, changes>>

Variables == {"base-100", "base-200", "base-300", "base-content", "primary",
              "primary-content", "error"}

Nothing == [theme |-> NoTheme]
-----------------------------------------------------------------------------
(* What may be said of the engines and of the bundled CSS.                  *)

Says(token, kind, n, slack) == token.kind = kind /\ token.n \in (n - slack)..(n + slack)

\* rgb(64, 128, 192) at half opacity, to a step of 255 and to two hundredths
RendersMix(text) ==
    LET c == text.channels
        alpha == RgbAlpha(text)
    IN  /\ Says(alpha, "number", 5000, 200) \/ Says(alpha, "percent", 500000, 20000)
        /\ \/ /\ text.form = "rgb" /\ Len(c) \in {3, 4}
              /\ \A i \in 1..3 :
                    \/ Says(c[i], "number", <<640000, 1280000, 1920000>>[i], 10000)
                    \/ Says(c[i], "percent", <<250980, 501961, 752941>>[i], 3900)
           \/ /\ text.form = "srgb" /\ Len(c) = 3
              /\ \A i \in 1..3 : Says(c[i], "number", <<2510, 5020, 7529>>[i], 38)
           \/ /\ text.form = "oklab" /\ Len(c) = 3
              /\ Says(c[1], "number", 5872, 1) \/ Says(c[1], "percent", 587200, 100)
              /\ Says(c[2], "number", -395, 1) /\ Says(c[3], "number", -1119, 1)

\* nothing, or a colour without or with full opacity
LeavesUnmixed(text) ==
    \/ text.form \in {"other", "transparent"}
    \/ text.form # "hex" /\ RgbAlpha(text) \in {Absent, Number(0)}

ASSUME EnginesAssumption ==
    \A e \in Engines :
        /\ e.mixes \in BOOLEAN /\ e.syntax \in BOOLEAN
        /\ e.computed \in {"theme", "rejected", "transparent", "inherited"}
        /\ IF e.mixes THEN RendersMix(e.probe) ELSE LeavesUnmixed(e.probe)

\* a number or a percentage, and not what stands for NaN
IsNumeral(token) ==
    token.kind \in {"number", "percent"} /\ token.n \in Int /\ token.n >= -10000000

CssText(text) ==
    /\ text.alpha = Absent
    /\ \/ text.form = "hex" /\ text.channels \in [1..3 -> 0..15] \cup [1..6 -> 0..15]
       \/ /\ text.form = "lab" /\ Len(text.channels) = 3
          /\ \A i \in 1..3 : IsNumeral(text.channels[i])

IsDark(c) == c.red <= 5600 /\ c.green <= 5600 /\ c.blue <= 14400
IsLight(c) == c.red >= 16000 /\ c.green >= 16000
IsBlackish(c) == c.red <= 4400 /\ c.green <= 4400 /\ c.blue <= 4400

\* A theme is dark or light on all of its surfaces, and its text is not black on black.
ASSUME StylesheetAssumption ==
    \A theme \in DOMAIN Stylesheet :
        /\ "hex" \in DOMAIN Stylesheet[theme]
        /\ \A notation \in DOMAIN Stylesheet[theme] :
              LET text(v) == Stylesheet[theme][notation][v]
                  color(v) == ParseRenderedColor(text(v))
                  surfaces == {"base-100", "base-200", "base-300"}
              IN  /\ \A v \in Variables : CssText(text(v)) /\ ~IsSentinel(color(v))
                  /\ (\A v \in surfaces : IsDark(color(v))) \/ (\A v \in surfaces : IsLight(color(v)))
                  /\ ~IsBlackish(color("base-100")) \/ ~IsBlackish(color("base-content"))
-----------------------------------------------------------------------------
(* What WebKit and the bundled CSS make of a variable.                      *)

\* What a rebuild reads: how the engine answers, and the theme in force, which
\* theme-controller inputs and prefers-color-scheme decide without data-theme.
Source ==
    [raw |-> engine.raw, computed |-> engine.computed,
     theme |-> IF page.theme = NoTheme THEN page.preferred ELSE page.theme]

Sources ==
    {[raw |-> e.raw, computed |-> e.computed, theme |-> t] :
        e \in Engines, t \in (FirstThemes \cup DocumentThemes \cup {"light", "dark"}) \ {NoTheme}}

\* A theme the CSS does not know gets the default rules.
Css(source) == Stylesheet[IF source.theme \in DOMAIN Stylesheet THEN source.theme ELSE "light"]

\* the text of the custom property on the root element
RawText(source, variable) ==
    IF source.raw = "none" THEN NoText
    ELSE Css(source)[IF source.raw \in DOMAIN Css(source) THEN source.raw ELSE "hex"][variable]

\* color: var(--variable) on the probe element: resolved, refused, turned into
\* transparent black, or undefined and hence inherited
ComputedText(source, variable) ==
    CASE source.computed = "theme"       -> Css(source).hex[variable]
      [] source.computed = "rejected"    -> Sentinel
      [] source.computed = "transparent" -> RgbText(0, 0, 0, Number(0))
      [] source.computed = "inherited"   -> RgbText(0, 0, 0, Absent)

\* activeThemePalette
ActiveThemePalette(source) ==
    IF source.theme \in DOMAIN themePalette THEN themePalette[source.theme] ELSE themePalette.light

\* resolvedVariableColor of every variable
Colors(source) ==
    LET read == [v \in Variables |->
                    ReadVariableColor(v, RawText(source, v), ComputedText(source, v),
                                      ActiveThemePalette(source))]
    IN  [v \in Variables |-> Lifted(v, read)]
-----------------------------------------------------------------------------
(* The rules.                                                               *)

\* the pattern of addUtilityClass
IsUtility(class) ==
    class.kind \in {"bg", "text", "border", "border-r"} /\ class.variable # "current"

Utilities(classes) == {class \in classes : IsUtility(class)}

NavigationColors(color, surfaces) ==
    LET surface == surfaces[3]
    IN  [foreground |-> ReadableColor(color["base-content"], <<surface>>, 80),
         border     |-> Rgba(color["base-content"], 24),
         accent     |-> ReadableColor(color["primary"],
                            <<surface, Blend(color["primary"], surface, 10)>>, 100),
         button     |-> Rounded(color["primary"]),
         buttonText |-> ReadableColor(color["primary-content"], <<color["primary"]>>, 100)]

ConnectionColors(color) ==
    [border |-> Rgba(color["base-content"], 10), row |-> Rgba(color["base-content"], 2),
     hover  |-> Rgba(color["primary"], 10),      close |-> Rgba(color["error"], 10)]

\* at most 100 per cent
UtilityColor(class, color, surfaces) ==
    LET alpha == Min({100, class.alpha})
    IN  IF class.kind = "text" /\ class.variable = "base-content" /\ alpha > 0
        THEN ReadableColor(color[class.variable], surfaces, alpha)
        ELSE Rgba(color[class.variable], alpha)

Sheet(color, classes) ==
    LET surfaces == <<color["base-100"], color["base-200"], color["base-300"]>>
    IN  [color       |-> color,
         surfaces    |-> surfaces,
         muted       |-> ReadableColor(color["base-content"], surfaces, 80),
         content     |-> ReadableColor(color["base-content"], surfaces, 100),
         navigation  |-> NavigationColors(color, surfaces),
         connections |-> ConnectionColors(color),
         utilities   |-> [class \in classes |-> UtilityColor(class, color, surfaces)]]

\* The sheet of a source with a rule for every utility: a table TLC computes once.
Sheets == [source \in Sources |-> Sheet(Colors(source), Utilities(UNION PageClasses))]

\* the style sheet: what its colours were read from, and its utilities, tell it
StyleSheet ==
    [Sheets[styles.resolved] EXCEPT !.utilities = [class \in styles.ruled |-> @[class]]]
-----------------------------------------------------------------------------
(* Rebuilding.                                                              *)

Read(s, source) == [s EXCEPT !.resolved = source, !.ruled = s.utilities]

Rebuilt_KeepsColors(s) ==
    [Read(s, IF s.resolved = Nothing THEN Source ELSE s.resolved)
        EXCEPT !.scheduled = FALSE, !.rebuilds = @ + 1]

\* rebuildStyles; resolvedColors, known by its source, is emptied and read anew
Rebuilt(s) == [Read(s, Source) EXCEPT !.scheduled = FALSE, !.rebuilds = @ + 1]

\* scheduleRebuild
Scheduled(s) == IF s.scheduled THEN s ELSE [s EXCEPT !.scheduled = TRUE, !.frames = @ + 1]

Observed_Always(s, classes) == Scheduled([s EXCEPT !.utilities = @ \cup Utilities(classes)])

\* The observer of classes and added nodes: a class not met before needs a rule.
Observed(s, classes) ==
    LET new == Utilities(classes) \ s.utilities
    IN  IF new = {} THEN s ELSE Scheduled([s EXCEPT !.utilities = @ \cup new])

SupportsRenderedColorMix == IsExpectedProbe(ParseRenderedColor(engine.probe))

\* Nothing was installed, no color-mix() is rendered: collect, rebuild, observe.
Installed(classes) ==
    Rebuilt([styles EXCEPT !.installed = TRUE, !.utilities = Utilities(classes)])

\* activateCompatibility, with the diagnostics d
ActivateCompatibility(d) ==
    /\ compat' = [d EXCEPT !.renderedProbe = SupportsRenderedColorMix, !.listening = FALSE]
    /\ styles' = IF SupportsRenderedColorMix THEN styles ELSE Installed(page.classes)
-----------------------------------------------------------------------------
Init ==
    /\ engine \in Engines
    /\ page \in [loading : BOOLEAN, theme : FirstThemes, preferred : {"light", "dark"},
                 classes : PageClasses]
    /\ compat = [present |-> FALSE, syntaxSupport |-> FALSE, renderedProbe |-> FALSE,
                 listening |-> FALSE]
    /\ styles = [installed |-> FALSE, rebuilds |-> 0, utilities |-> {}, scheduled |-> FALSE,
                 frames |-> 0, resolved |-> Nothing, ruled |-> {}]
    /\ previews = [active |-> 0, timers |-> 0, count |-> 0, totalCount |-> 0, batches |-> 0]
    /\ asked = 0
    /\ changes = 0

\* The script is evaluated: at document start, or in a document already parsed.
Evaluate ==
    /\ ~compat.present
    /\ LET d == [compat EXCEPT !.present = TRUE, !.syntaxSupport = engine.syntax]
       IN  IF page.loading
           THEN compat' = [d EXCEPT !.listening = TRUE] /\ UNCHANGED styles
           ELSE ActivateCompatibility(d)
    /\ UNCHANGED <<engine, page, previews, asked, changes>>

\* DOMContentLoaded
DocumentParsed ==
    /\ page.loading
    /\ page' = [page EXCEPT !.loading = FALSE]
    /\ IF compat.listening THEN ActivateCompatibility(compat) ELSE UNCHANGED <<compat, styles>>
    /\ UNCHANGED <<engine, previews, asked, changes>>

\* The dashboard renders: classes come and go.  The observer inspects what came.
ChangeClasses(classes) ==
    /\ changes < MaxChanges
    /\ changes' = changes + 1
    /\ page' = [page EXCEPT !.classes = classes]
    /\ styles' = IF styles.installed THEN Observed(styles, classes \ page.classes) ELSE styles
    /\ UNCHANGED <<engine, compat, previews, asked>>

\* The dashboard sets data-theme, perhaps to what it was, or removes it.
ChangeTheme(theme) ==
    /\ changes < MaxChanges
    /\ changes' = changes + 1
    /\ page' = [page EXCEPT !.theme = theme]
    /\ styles' = IF styles.installed THEN Scheduled(styles) ELSE styles
    /\ UNCHANGED <<engine, compat, previews, asked>>

\* The system turns dark or light: no observer watches that.
ChangePreference ==
    /\ changes < MaxChanges
    /\ changes' = changes + 1
    /\ page' = [page EXCEPT !.preferred = IF @ = "dark" THEN "light" ELSE "dark"]
    /\ UNCHANGED <<engine, compat, styles, previews, asked>>

\* A frame.  The style element that is removed and the one that is added have no
\* classes, and the observer sees both.
Frame ==
    /\ styles.frames > 0
    /\ styles' = Observed(Rebuilt([styles EXCEPT !.frames = @ - 1]), {})
    /\ UNCHANGED <<engine, page, compat, previews, asked, changes>>

RecordThemeProbe_Stacks == [previews EXCEPT !.active = @ + 1, !.timers = @ + 1]

\* recordThemeProbe: a timer that is pending is replaced
RecordThemeProbe == [previews EXCEPT !.active = @ + 1, !.timers = 1]

\* getComputedStyle of a hidden preview of a theme the palette knows; any other
\* element gets the native answer
ThemePreview ==
    /\ compat.present
    /\ asked < MaxPreviews
    /\ asked' = asked + 1
    /\ previews' = RecordThemeProbe
    /\ UNCHANGED <<engine, page, compat, styles, changes>>

BatchEnded ==
    [previews EXCEPT !.count = previews.active, !.totalCount = @ + previews.active,
                     !.batches = @ + 1, !.active = 0, !.timers = @ - 1]

TimerFires ==
    /\ previews.timers > 0
    /\ previews' = BatchEnded
    /\ UNCHANGED <<engine, page, compat, styles, asked, changes>>

Next ==
    \/ Evaluate
    \/ DocumentParsed
    \/ \E classes \in PageClasses : ChangeClasses(classes)
    \/ \E theme \in DocumentThemes : ChangeTheme(theme)
    \/ ChangePreference
    \/ Frame
    \/ ThemePreview
    \/ TimerFires

\* While the page is shown, frames come.
Spec == Init /\ [][Next]_vars /\ WF_vars(Frame)
-----------------------------------------------------------------------------
(* Properties.                                                              *)

\* Each theme preview is counted in one batch and no batch is empty.
ProbesCounted ==
    /\ previews.totalCount + previews.active = asked
    /\ previews.batches <= previews.totalCount
    /\ previews.active > 0 => previews.timers = 1

\* Types, and the account of the theme previews.
TypeOK ==
    /\ engine \in Engines
    /\ page \in [loading : BOOLEAN, theme : FirstThemes \cup DocumentThemes,
                 preferred : {"light", "dark"}, classes : PageClasses]
    /\ compat \in [present : BOOLEAN, syntaxSupport : BOOLEAN, renderedProbe : BOOLEAN,
                   listening : BOOLEAN]
    /\ styles.installed \in BOOLEAN /\ styles.scheduled \in BOOLEAN
    /\ styles.rebuilds \in Nat /\ styles.frames \in Nat
    /\ styles.resolved \in Sources \cup {Nothing}
    /\ styles.ruled \subseteq styles.utilities
    /\ previews \in [active : 0..MaxPreviews, timers : 0..1, count : 0..MaxPreviews,
                     totalCount : 0..MaxPreviews, batches : 0..MaxPreviews]
    /\ ProbesCounted

\* Every utility on the page has its rule and every surface its present colour.
\* Without data-theme the script cannot know: a change of preference is unobserved.
SheetCurrent ==
    /\ Utilities(page.classes) \subseteq styles.ruled
    /\ page.theme # NoTheme => styles.resolved = Source

\* Whatever the page did to its classes and theme, a style sheet that is no longer
\* right has a rebuild waiting for a frame, so no change is ever missed.
StaleIsScheduled == styles.installed /\ ~SheetCurrent => styles.scheduled /\ styles.frames > 0

\* The observers see the rebuilds themselves, and yet rebuilds do not beget
\* rebuilds: at most one per change, one at a time, and the first.
NoFeedback ==
    /\ styles.frames <= 1
    /\ styles.rebuilds + styles.frames <= 1 + changes

\* No change is missed, and none has more than its rebuild.
RebuildsAsNeeded == StaleIsScheduled /\ NoFeedback

\* The fallback is installed in those engines alone that do not render color-mix(),
\* whether the others tell the colour they rendered as rgb(), color(srgb) or oklab().
FallbackExact ==
    compat.present /\ ~compat.listening => (styles.installed <=> ~engine.mixes)

\* No colour is taken from a transparent answer or from the probe's own sentinel,
\* so no panel or text of the dashboard vanishes.
VisibleColors ==
    \A color \in {StyleSheet.color[v] : v \in Variables} : Usable(color) /\ ~IsSentinel(color)

\* The texts of a style sheet that are made readable, each with a surface it may
\* stand on, as emitted.  A text utility of another variable than base-content, or
\* of opacity 0, keeps the translucency it asks for and is not among them.
TextsOnSurfaces(sheet) ==
    LET nav == sheet.navigation
        surface == Rounded(sheet.surfaces[3])
        texts == {sheet.muted, sheet.content} \cup
            {sheet.utilities[class] : class \in
                {c \in DOMAIN sheet.utilities :
                    c.kind = "text" /\ c.variable = "base-content" /\ c.alpha > 0}}
    IN  (texts \X {Rounded(sheet.surfaces[i]) : i \in 1..3})
        \cup {<<nav.foreground, surface>>, <<nav.accent, surface>>, <<nav.buttonText, nav.button>>}

\* Text in the colour of the content can be read on the surfaces it may stand on:
\* muted text, links and the slash-opacity utilities of base-content; and so can the
\* selected link and the round button, under every bundled theme and however its
\* colours became known.  Of slash-opacity text in any other colour nothing is said.
ReadableText ==
    styles.installed =>
        /\ \A sheet \in {StyleSheet} : \A pair \in TextsOnSurfaces(sheet) :
               pair[1].alpha = 100 /\ Contrast(pair[1], pair[2]) >= 450
        /\ VisibleColors

\* What a preview is told of a theme is what the bundled CSS would have said.
PaletteOfCss ==
    \A theme \in DOMAIN themePalette \cap DOMAIN Stylesheet :
        LET css == Stylesheet[theme].hex
            told == themePalette[theme]
        IN  /\ ParseRenderedColor(told.base) = ParseRenderedColor(css["base-100"])
            /\ ParseRenderedColor(told.primary) = ParseRenderedColor(css["primary"])
            /\ ParseRenderedColor(told.content) = ParseRenderedColor(css["base-content"])

\* The two notations in which the bundled CSS gives a theme are read as the same
\* colours, up to what lab() can say beyond sRGB: eight steps, as in the tests.
SameInBoth ==
    \A theme \in {t \in DOMAIN Stylesheet : "lab" \in DOMAIN Stylesheet[t]}, v \in Variables :
        LET hex == ParseRenderedColor(Stylesheet[theme].hex[v])
            lab == ParseRenderedColor(Stylesheet[theme].lab[v])
        IN  Max({Distance(hex.red, lab.red), Distance(hex.green, lab.green),
                 Distance(hex.blue, lab.blue)}) <= 800

\* Colours without chroma are grey in every notation, from black to white.
Greys ==
    \A form \in {"lab", "oklab", "lch", "oklch"}, share \in {0, 20, 40, 60, 80, 100} :
        LET c == ParseRenderedColor(
                   Text(form, <<Percent(share * 10000), Number(0), Number(0)>>, Absent))
        IN  c # NoColor /\ Max({c.red, c.green, c.blue}) - Min({c.red, c.green, c.blue}) <= 60

\* Before the script runs nothing depends on it: the state in which the palette
\* and the conversions, which are functions of constants, are looked at once.
ColorsTrue == ~compat.present => PaletteOfCss /\ SameInBoth /\ Greys

\* scheduleRebuild asks for no frame while one is awaited: then one must come that
\* rebuilds, or the dashboard keeps its colours for good.
RebuildComes == styles.scheduled => ENABLED <<Frame>>_vars

\* A style sheet that is out of date is replaced by one that is not: no frame is
\* awaited in vain.
CatchesUp ==
    /\ []RebuildComes
    /\ (styles.installed /\ ~SheetCurrent) ~> (styles.installed /\ SheetCurrent)
=============================================================================
