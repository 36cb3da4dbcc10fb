------------------------- MODULE DashboardCompat_proofs -------------------------
(***************************************************************************)
(* Proofs about clashfx-compat.js: the protocol of observers, frames and    *)
(* previews, for any page and any number of changes; the colours, for any   *)
(* style sheet of dark or light themes and any engine.                      *)
(***************************************************************************)
EXTENDS DashboardCompat, NaturalsInduction, WellFoundedInduction, TLAPS

Classes == UNION PageClasses

\* the variables of installLegacyColorFallbacks
Closure ==
    [installed : BOOLEAN, rebuilds : Nat, utilities : SUBSET Utilities(Classes),
     scheduled : BOOLEAN, frames : 0..1, resolved : Sources \cup {Nothing},
     ruled : SUBSET Utilities(Classes)]

\* A frame is waited for if one was scheduled, and then for one only.
StylesType ==
    /\ styles \in Closure
    /\ styles.ruled \subseteq styles.utilities
    /\ styles.scheduled <=> styles.frames = 1

PageType ==
    page \in [loading : BOOLEAN, theme : FirstThemes \cup DocumentThemes,
              preferred : {"light", "dark"}, classes : PageClasses]

CompatType ==
    /\ engine \in Engines
    /\ compat \in [present : BOOLEAN, syntaxSupport : BOOLEAN, renderedProbe : BOOLEAN,
                   listening : BOOLEAN]
    /\ changes \in Nat

\* The observers are installed once, when the test has been made and has failed.
InstalledOnce ==
    /\ compat.listening => compat.present /\ page.loading
    /\ ~compat.present \/ compat.listening => ~styles.installed
    /\ compat.present /\ ~compat.listening => (styles.installed <=> ~SupportsRenderedColorMix)
    /\ ~styles.installed => styles.rebuilds = 0 /\ styles.frames = 0

\* The observers know the utilities of the page, and the style sheet is right
\* unless a frame is on its way.
SheetKept ==
    styles.installed =>
        /\ styles.resolved \in Sources
        /\ Utilities(page.classes) \subseteq styles.utilities
        /\ ~styles.scheduled => /\ styles.ruled = styles.utilities
                                /\ page.theme # NoTheme => styles.resolved = Source
        /\ styles.rebuilds + styles.frames <= 1 + changes

PreviewsInv ==
    /\ asked \in 0..MaxPreviews
    /\ previews \in [active : Nat, timers : 0..1, count : 0..MaxPreviews, totalCount : Nat,
                     batches : Nat]
    /\ previews.totalCount + previews.active = asked
    /\ previews.batches <= previews.totalCount
    /\ previews.active > 0 <=> previews.timers = 1

\* What holds in every state.
CompatInvariant ==
    /\ StylesType
    /\ PageType
    /\ CompatType
    /\ InstalledOnce
    /\ SheetKept
    /\ PreviewsInv
-----------------------------------------------------------------------------
(* What the operators of a rebuild return.                                  *)

LEMMA SourceTyped ==
    ASSUME engine \in Engines, PageType
    PROVE  Source \in Sources
<1>1. page.theme # NoTheme =>
          page.theme \in (FirstThemes \cup DocumentThemes \cup {"light", "dark"}) \ {NoTheme}
  BY DEF PageType
<1>2. page.preferred \in (FirstThemes \cup DocumentThemes \cup {"light", "dark"}) \ {NoTheme}
  BY DEF PageType, NoTheme
<1> DEFINE t == IF page.theme = NoTheme THEN page.preferred ELSE page.theme
<1>3. t \in (FirstThemes \cup DocumentThemes \cup {"light", "dark"}) \ {NoTheme}
  BY <1>1, <1>2
<1>4. Source = [raw |-> engine.raw, computed |-> engine.computed, theme |-> t]
  BY DEF Source
<1> QED
  BY <1>3, <1>4 DEF Sources

\* With data-theme set, what a rebuild reads does not depend on anything else.
LEMMA SourceKept ==
    ASSUME engine' = engine, page'.theme = page.theme,
           page.theme # NoTheme \/ page'.preferred = page.preferred
    PROVE  Source' = Source
BY DEF Source

LEMMA UtilitiesKnown ==
    ASSUME NEW classes \in PageClasses, NEW old
    PROVE  /\ Utilities(classes) \subseteq Utilities(Classes)
           /\ Utilities(classes \ old) \subseteq Utilities(Classes)
           /\ Utilities(classes) \subseteq Utilities(old) \cup Utilities(classes \ old)
BY DEF Utilities, Classes

LEMMA RebuiltFacts ==
    ASSUME NEW s \in Closure, Source \in Sources
    PROVE  /\ Rebuilt(s) \in Closure
           /\ Rebuilt(s).installed = s.installed /\ Rebuilt(s).utilities = s.utilities
           /\ Rebuilt(s).rebuilds = s.rebuilds + 1 /\ Rebuilt(s).frames = s.frames
           /\ Rebuilt(s).ruled = s.utilities /\ Rebuilt(s).resolved = Source
           /\ ~Rebuilt(s).scheduled
<1> DEFINE r == Read(s, Source)
<1>1. /\ r \in Closure /\ r.installed = s.installed /\ r.utilities = s.utilities
      /\ r.rebuilds = s.rebuilds /\ r.frames = s.frames /\ r.ruled = s.utilities
      /\ r.resolved = Source
  BY DEF Read, Closure
<1>2. r.rebuilds + 1 \in Nat
  BY <1>1 DEF Closure
<1>3. Rebuilt(s) = [r EXCEPT !.scheduled = FALSE, !.rebuilds = r.rebuilds + 1]
  BY DEF Rebuilt
<1> DEFINE t == Rebuilt(s)
<1>4. t = [r EXCEPT !.scheduled = FALSE, !.rebuilds = r.rebuilds + 1]
  BY <1>3
<1> HIDE DEF r, t
<1>5. /\ t \in Closure /\ ~t.scheduled /\ t.rebuilds = r.rebuilds + 1
      /\ t.installed = r.installed /\ t.frames = r.frames
      /\ t.utilities = r.utilities /\ t.ruled = r.ruled /\ t.resolved = r.resolved
  BY <1>1, <1>2, <1>4 DEF Closure
<1>6. t \in Closure /\ ~t.scheduled /\ t.rebuilds = s.rebuilds + 1
  BY <1>1, <1>5
<1> QED
  BY <1>1, <1>5, <1>6 DEF t

LEMMA ScheduledFacts ==
    ASSUME NEW s \in Closure, s.scheduled <=> s.frames = 1
    PROVE  /\ Scheduled(s) \in Closure
           /\ Scheduled(s).scheduled /\ Scheduled(s).frames = 1
           /\ Scheduled(s).installed = s.installed /\ Scheduled(s).rebuilds = s.rebuilds
           /\ Scheduled(s).utilities = s.utilities /\ Scheduled(s).ruled = s.ruled
           /\ Scheduled(s).resolved = s.resolved
<1>1. s.scheduled \in BOOLEAN /\ s.frames \in 0..1
  BY DEF Closure
<1>2. CASE s.scheduled
  BY <1>1, <1>2 DEF Scheduled
<1>3. CASE ~s.scheduled
  <2>1. PICK n \in 0..1 : n = 1 /\ n = s.frames + 1
    BY <1>1, <1>3
  <2>2. Scheduled(s) = [s EXCEPT !.scheduled = TRUE, !.frames = n]
    BY <1>3, <2>1 DEF Scheduled
  <2> DEFINE t == Scheduled(s)
  <2>3. t = [s EXCEPT !.scheduled = TRUE, !.frames = n]
    BY <2>2
  <2> HIDE DEF t
  <2>4. /\ t \in Closure /\ t.scheduled /\ t.frames = n
        /\ t.installed = s.installed /\ t.rebuilds = s.rebuilds
        /\ t.utilities = s.utilities /\ t.ruled = s.ruled /\ t.resolved = s.resolved
    BY <2>3 DEF Closure
  <2> QED
    BY <2>1, <2>4 DEF t
<1> QED
  BY <1>2, <1>3

\* The observer learns the new utilities; it schedules only if there are some.
LEMMA ObservedFacts ==
    ASSUME NEW s \in Closure, s.scheduled <=> s.frames = 1, NEW classes,
           Utilities(classes) \subseteq Utilities(Classes)
    PROVE  /\ Observed(s, classes) \in Closure
           /\ Observed(s, classes).utilities = s.utilities \cup Utilities(classes)
           /\ Observed(s, classes).installed = s.installed
           /\ Observed(s, classes).rebuilds = s.rebuilds
           /\ Observed(s, classes).ruled = s.ruled /\ Observed(s, classes).resolved = s.resolved
           /\ Observed(s, classes).scheduled <=> Observed(s, classes).frames = 1
           /\ Utilities(classes) \subseteq s.utilities => Observed(s, classes) = s
           /\ ~(Utilities(classes) \subseteq s.utilities) => Observed(s, classes).scheduled
<1> DEFINE new == Utilities(classes) \ s.utilities
           t == [s EXCEPT !.utilities = @ \cup new]
<1>1. CASE Utilities(classes) \subseteq s.utilities
  <2>1. new = {} /\ s.utilities \cup Utilities(classes) = s.utilities
    BY <1>1
  <2>2. Observed(s, classes) = s
    BY <2>1 DEF Observed
  <2> QED
    BY <1>1, <2>1, <2>2
<1>2. CASE ~(Utilities(classes) \subseteq s.utilities)
  <2>1. new # {} /\ Observed(s, classes) = Scheduled(t)
    BY <1>2 DEF Observed
  <2>2. /\ t \in Closure /\ t.utilities = s.utilities \cup Utilities(classes)
        /\ t.installed = s.installed /\ t.rebuilds = s.rebuilds /\ t.frames = s.frames
        /\ t.scheduled = s.scheduled /\ t.ruled = s.ruled /\ t.resolved = s.resolved
    BY DEF Closure
  <2> DEFINE u == Scheduled(t)
  <2> HIDE DEF t
  <2>3. /\ u \in Closure /\ u.scheduled /\ u.frames = 1 /\ u.installed = t.installed
        /\ u.rebuilds = t.rebuilds /\ u.utilities = t.utilities /\ u.ruled = t.ruled
        /\ u.resolved = t.resolved
    BY <2>2, ScheduledFacts
  <2>4. Observed(s, classes) = u
    BY <2>1
  <2> HIDE DEF u
  <2> QED
    BY <1>2, <2>2, <2>3, <2>4
<1> QED
  BY <1>1, <1>2
-----------------------------------------------------------------------------
(* The invariant.                                                           *)

LEMMA InitInvariant == Init => CompatInvariant
<1> SUFFICES ASSUME Init PROVE CompatInvariant
  OBVIOUS
<1>1. PageType /\ CompatType
  BY DEF Init, PageType, CompatType
<1>2. StylesType /\ InstalledOnce /\ SheetKept
  BY DEF Init, StylesType, Closure, InstalledOnce, SheetKept
<1>3. PreviewsInv
  BY CompatAssumption DEF Init, PreviewsInv
<1> QED
  BY <1>1, <1>2, <1>3 DEF CompatInvariant

\* What activateCompatibility leaves, whoever calls it.
LEMMA ActivationFacts ==
    ASSUME CompatInvariant, NEW d, compat.present => compat.listening,
           d \in [present : BOOLEAN, syntaxSupport : BOOLEAN, renderedProbe : BOOLEAN,
                  listening : BOOLEAN],
           d.present, ActivateCompatibility(d), UNCHANGED <<engine, previews, asked, changes>>,
           PageType', page'.theme = page.theme, page'.preferred = page.preferred,
           page'.classes = page.classes
    PROVE  CompatInvariant'
<1> DEFINE mixed == SupportsRenderedColorMix
           s == [styles EXCEPT !.installed = TRUE, !.utilities = Utilities(page.classes)]
<1> USE DEF CompatInvariant
<1>1. mixed \in BOOLEAN /\ SupportsRenderedColorMix' = mixed
  BY DEF SupportsRenderedColorMix, IsExpectedProbe
<1>2. /\ compat' \in [present : BOOLEAN, syntaxSupport : BOOLEAN, renderedProbe : BOOLEAN,
                       listening : BOOLEAN]
      /\ compat'.present /\ ~compat'.listening
  BY <1>1 DEF ActivateCompatibility
<1>3. CompatType' /\ PreviewsInv'
  BY <1>2 DEF CompatType, PreviewsInv
<1>4. Source \in Sources /\ Source' = Source
  BY SourceTyped, SourceKept DEF CompatType
<1>5. ~styles.installed /\ styles.rebuilds = 0 /\ styles.frames = 0 /\ ~styles.scheduled
  BY DEF InstalledOnce, StylesType
<1>6. CASE mixed
  <2>1. styles' = styles
    BY <1>6 DEF ActivateCompatibility
  <2>2. StylesType' /\ SheetKept'
    BY <1>5, <2>1 DEF StylesType, SheetKept, Closure
  <2>3. InstalledOnce'
    BY <1>1, <1>2, <1>5, <1>6, <2>1 DEF InstalledOnce
  <2> QED
    BY <1>3, <2>2, <2>3
<1>7. CASE ~mixed
  <2>1. Utilities(page.classes) \subseteq Utilities(Classes)
    BY UtilitiesKnown DEF PageType
  <2>2. /\ s \in Closure /\ s.installed /\ s.utilities = Utilities(page.classes)
        /\ s.rebuilds = styles.rebuilds /\ s.frames = styles.frames
    BY <2>1 DEF StylesType, Closure
  <2>3. styles' = Rebuilt(s)
    BY <1>7 DEF ActivateCompatibility, Installed
  <2> HIDE DEF s
  <2>4. /\ styles' \in Closure /\ styles'.installed /\ ~styles'.scheduled
        /\ styles'.utilities = Utilities(page.classes) /\ styles'.ruled = styles'.utilities
        /\ styles'.rebuilds = 1 /\ styles'.frames = 0 /\ styles'.resolved = Source
    BY <1>4, <1>5, <2>2, <2>3, RebuiltFacts
  <2>5. StylesType'
    BY <2>4 DEF StylesType
  <2>6. InstalledOnce'
    BY <1>1, <1>2, <1>7, <2>4 DEF InstalledOnce
  <2>7. SheetKept'
    BY <1>4, <2>4 DEF SheetKept, CompatType
  <2> QED
    BY <1>3, <2>5, <2>6, <2>7
<1> QED
  BY <1>6, <1>7

\* An observer or a change of theme has made styles out of what it was: whatever
\* is not right any more is scheduled.
LEMMA StylesStep ==
    ASSUME CompatInvariant, UNCHANGED <<engine, compat, previews, asked>>, styles.installed,
           PageType', page'.loading = page.loading, styles' \in Closure,
           styles'.scheduled <=> styles'.frames = 1,
           styles'.installed = styles.installed,
           styles'.ruled \subseteq styles'.utilities, styles'.resolved \in Sources,
           Utilities(page'.classes) \subseteq styles'.utilities,
           ~styles'.scheduled => /\ styles'.ruled = styles'.utilities
                                 /\ page'.theme # NoTheme => styles'.resolved = Source',
           changes' \in Nat, styles'.rebuilds + styles'.frames <= 1 + changes'
    PROVE  CompatInvariant'
<1> USE DEF CompatInvariant
<1>1. StylesType' /\ CompatType' /\ PreviewsInv'
  BY DEF StylesType, CompatType, PreviewsInv
<1>2. SupportsRenderedColorMix' = SupportsRenderedColorMix
  BY DEF SupportsRenderedColorMix
<1>3. InstalledOnce'
  BY <1>2 DEF InstalledOnce
<1>4. SheetKept'
  BY DEF SheetKept
<1> QED
  BY <1>1, <1>3, <1>4

\* Without the fallback nobody observes the page.
LEMMA UnobservedStep ==
    ASSUME CompatInvariant, UNCHANGED <<engine, compat, styles, previews, asked>>,
           ~styles.installed, PageType', page'.loading = page.loading, changes' \in Nat
    PROVE  CompatInvariant'
<1> USE DEF CompatInvariant
<1>1. StylesType' /\ CompatType' /\ PreviewsInv' /\ SheetKept'
  BY DEF StylesType, Closure, CompatType, PreviewsInv, SheetKept
<1>2. SupportsRenderedColorMix' = SupportsRenderedColorMix
  BY DEF SupportsRenderedColorMix
<1>3. InstalledOnce'
  BY <1>2 DEF InstalledOnce
<1> QED
  BY <1>1, <1>3

LEMMA EvaluateStep == ASSUME CompatInvariant, Evaluate PROVE CompatInvariant'
<1> USE DEF CompatInvariant
<1> DEFINE d == [compat EXCEPT !.present = TRUE, !.syntaxSupport = engine.syntax]
<1>1. engine.syntax \in BOOLEAN
  BY EnginesAssumption DEF CompatType
<1>2. /\ d \in [present : BOOLEAN, syntaxSupport : BOOLEAN, renderedProbe : BOOLEAN,
                 listening : BOOLEAN]
      /\ d.present /\ (d.listening <=> compat.listening)
  BY <1>1 DEF CompatType
<1>3. ~compat.present /\ ~compat.listening /\ page' = page
  BY DEF Evaluate, InstalledOnce
<1>4. CASE page.loading
  <2>1. compat' = [d EXCEPT !.listening = TRUE] /\ UNCHANGED <<engine, page, styles, previews, asked, changes>>
    BY <1>4 DEF Evaluate
  <2> HIDE DEF d
  <2>2. /\ compat' \in [present : BOOLEAN, syntaxSupport : BOOLEAN, renderedProbe : BOOLEAN,
                         listening : BOOLEAN]
        /\ compat'.present /\ compat'.listening
    BY <1>2, <2>1
  <2>3. ~styles.installed
    BY <1>3 DEF InstalledOnce
  <2>4. StylesType' /\ PageType' /\ CompatType' /\ PreviewsInv' /\ SheetKept'
    BY <2>1, <2>2, <2>3 DEF StylesType, Closure, PageType, CompatType, PreviewsInv, SheetKept
  <2>5. InstalledOnce'
    BY <1>4, <2>1, <2>2, <2>3 DEF InstalledOnce
  <2> QED
    BY <2>4, <2>5
<1>5. CASE ~page.loading
  <2>1. ActivateCompatibility(d) /\ UNCHANGED <<engine, page, previews, asked, changes>>
    BY <1>5 DEF Evaluate
  <2> HIDE DEF d
  <2>2. PageType'
    BY <1>3 DEF PageType
  <2> QED
    BY <1>2, <1>3, <2>1, <2>2, ActivationFacts
<1> QED
  BY <1>4, <1>5

LEMMA DocumentParsedStep == ASSUME CompatInvariant, DocumentParsed PROVE CompatInvariant'
<1> USE DEF CompatInvariant
<1>1. /\ PageType' /\ ~page'.loading /\ page'.theme = page.theme
      /\ page'.preferred = page.preferred /\ page'.classes = page.classes
  BY DEF DocumentParsed, PageType
<1>2. CASE compat.listening
  <2>1. ActivateCompatibility(compat) /\ UNCHANGED <<engine, previews, asked, changes>>
    BY <1>2 DEF DocumentParsed
  <2>2. compat.present
    BY <1>2 DEF InstalledOnce
  <2> QED
    BY <1>1, <1>2, <2>1, <2>2, ActivationFacts DEF CompatType
<1>3. CASE ~compat.listening
  <2>1. UNCHANGED <<engine, compat, styles, previews, asked, changes>>
    BY <1>3 DEF DocumentParsed
  <2>2. StylesType' /\ CompatType' /\ PreviewsInv'
    BY <2>1 DEF StylesType, Closure, CompatType, PreviewsInv
  <2>3. Source' = Source
    BY <1>1, <2>1, SourceKept
  <2>4. SheetKept'
    BY <1>1, <2>1, <2>3 DEF SheetKept
  <2>5. SupportsRenderedColorMix' = SupportsRenderedColorMix
    BY <2>1 DEF SupportsRenderedColorMix
  <2>6. InstalledOnce'
    BY <1>3, <2>1, <2>5 DEF InstalledOnce
  <2> QED
    BY <1>1, <2>2, <2>4, <2>6
<1> QED
  BY <1>2, <1>3

LEMMA ChangeClassesStep ==
    ASSUME CompatInvariant, NEW classes \in PageClasses, ChangeClasses(classes)
    PROVE  CompatInvariant'
<1> USE DEF CompatInvariant
<1>1. /\ PageType' /\ page'.loading = page.loading /\ page'.theme = page.theme
      /\ page'.preferred = page.preferred /\ page'.classes = classes
      /\ UNCHANGED <<engine, compat, previews, asked>>
  BY DEF ChangeClasses, PageType
<1>2. changes' = changes + 1 /\ changes \in Nat
  BY DEF ChangeClasses, CompatType
<1>3. CASE ~styles.installed
  <2>1. styles' = styles
    BY <1>3 DEF ChangeClasses
  <2> QED
    BY <1>1, <1>2, <1>3, <2>1, UnobservedStep
<1>4. CASE styles.installed
  <2> DEFINE new == classes \ page.classes
  <2>1. styles' = Observed(styles, new)
    BY <1>4 DEF ChangeClasses
  <2>2. /\ Utilities(new) \subseteq Utilities(Classes)
        /\ Utilities(classes) \subseteq Utilities(page.classes) \cup Utilities(new)
    BY UtilitiesKnown
  <2> HIDE DEF new
  <2>3. Source' = Source
    BY <1>1, SourceKept
  <2>4. /\ styles' \in Closure /\ styles'.utilities = styles.utilities \cup Utilities(new)
        /\ styles'.installed = styles.installed /\ styles'.rebuilds = styles.rebuilds
        /\ styles'.ruled = styles.ruled /\ styles'.resolved = styles.resolved
        /\ styles'.scheduled <=> styles'.frames = 1
        /\ Utilities(new) \subseteq styles.utilities => styles' = styles
        /\ ~(Utilities(new) \subseteq styles.utilities) => styles'.scheduled
    BY <2>1, <2>2, ObservedFacts DEF StylesType
  <2>5. styles'.rebuilds + styles'.frames <= 1 + changes'
    <3>1. styles.rebuilds + styles.frames <= 1 + changes
      BY <1>4 DEF SheetKept
    <3> QED
      BY <1>2, <2>4, <3>1 DEF Closure, StylesType
  <2>6. Utilities(page'.classes) \subseteq styles'.utilities
    BY <1>1, <1>4, <2>2, <2>4 DEF SheetKept
  <2>7. styles'.ruled \subseteq styles'.utilities
    BY <2>4 DEF StylesType
  <2>8. ASSUME ~styles'.scheduled
        PROVE  /\ styles'.ruled = styles'.utilities
               /\ page'.theme # NoTheme => styles'.resolved = Source'
    <3>1. styles' = styles
      BY <2>4, <2>8
    <3> QED
      BY <1>1, <1>4, <2>3, <2>8, <3>1 DEF SheetKept
  <2>9. styles'.resolved \in Sources
    BY <1>4, <2>4 DEF SheetKept
  <2>10. changes' \in Nat
    BY <1>2
  <2> QED
    BY <1>1, <1>4, <2>4, <2>5, <2>6, <2>7, <2>8, <2>9, <2>10, StylesStep
<1> QED
  BY <1>3, <1>4

LEMMA ChangeThemeStep ==
    ASSUME CompatInvariant, NEW theme \in DocumentThemes, ChangeTheme(theme)
    PROVE  CompatInvariant'
<1> USE DEF CompatInvariant
<1>1. /\ PageType' /\ page'.loading = page.loading /\ page'.classes = page.classes
      /\ UNCHANGED <<engine, compat, previews, asked>>
  BY DEF ChangeTheme, PageType
<1>2. changes' = changes + 1 /\ changes \in Nat
  BY DEF ChangeTheme, CompatType
<1>3. CASE ~styles.installed
  <2>1. styles' = styles
    BY <1>3 DEF ChangeTheme
  <2> QED
    BY <1>1, <1>2, <1>3, <2>1, UnobservedStep
<1>4. CASE styles.installed
  <2>1. styles' = Scheduled(styles)
    BY <1>4 DEF ChangeTheme
  <2>2. /\ styles' \in Closure /\ styles'.scheduled /\ styles'.frames = 1
        /\ styles'.installed = styles.installed /\ styles'.rebuilds = styles.rebuilds
        /\ styles'.utilities = styles.utilities /\ styles'.ruled = styles.ruled
        /\ styles'.resolved = styles.resolved
    BY <2>1, ScheduledFacts DEF StylesType
  <2>3. styles'.rebuilds + styles'.frames <= 1 + changes'
    <3>1. styles.rebuilds + styles.frames <= 1 + changes
      BY <1>4 DEF SheetKept
    <3> QED
      BY <1>2, <2>2, <3>1 DEF Closure, StylesType
  <2>4. /\ Utilities(page'.classes) \subseteq styles'.utilities
        /\ styles'.ruled \subseteq styles'.utilities /\ styles'.resolved \in Sources
        /\ changes' \in Nat
    BY <1>1, <1>2, <1>4, <2>2 DEF SheetKept, StylesType
  <2> QED
    BY <1>1, <1>4, <2>2, <2>3, <2>4, StylesStep
<1> QED
  BY <1>3, <1>4

LEMMA ChangePreferenceStep == ASSUME CompatInvariant, ChangePreference PROVE CompatInvariant'
<1> USE DEF CompatInvariant
<1>1. /\ PageType' /\ page'.loading = page.loading /\ page'.classes = page.classes
      /\ page'.theme = page.theme /\ UNCHANGED <<engine, compat, styles, previews, asked>>
  BY DEF ChangePreference, PageType
<1>2. changes' = changes + 1 /\ changes \in Nat
  BY DEF ChangePreference, CompatType
<1>3. CASE ~styles.installed
  BY <1>1, <1>2, <1>3, UnobservedStep
<1>4. CASE styles.installed
  <2>1. page.theme # NoTheme => Source' = Source
    BY <1>1, SourceKept
  <2>2. styles'.rebuilds + styles'.frames <= 1 + changes'
    BY <1>1, <1>2, <1>4 DEF SheetKept, Closure, StylesType
  <2> QED
    BY <1>1, <1>2, <1>4, <2>1, <2>2, StylesStep DEF SheetKept, StylesType
<1> QED
  BY <1>3, <1>4

\* A frame rebuilds; the observer sees it and finds nothing new in it, so nothing
\* is scheduled after it.
LEMMA FrameFacts ==
    ASSUME CompatInvariant, Frame
    PROVE  /\ styles.installed /\ styles.frames = 1 /\ styles.scheduled
           /\ UNCHANGED <<engine, page, compat, previews, asked, changes>>
           /\ Source \in Sources /\ Source' = Source
           /\ styles' \in Closure /\ styles'.installed /\ ~styles'.scheduled /\ styles'.frames = 0
           /\ styles'.utilities = styles.utilities /\ styles'.ruled = styles.utilities
           /\ styles'.rebuilds = styles.rebuilds + 1 /\ styles'.resolved = Source
<1> USE DEF CompatInvariant
<1> DEFINE s == [styles EXCEPT !.frames = @ - 1]
<1>1. styles.installed /\ styles.frames = 1 /\ styles.scheduled
  BY DEF Frame, InstalledOnce, StylesType, Closure
<1>2. UNCHANGED <<engine, page, compat, previews, asked, changes>>
  BY DEF Frame
<1>3. /\ s \in Closure /\ s.frames = 0 /\ s.installed /\ s.utilities = styles.utilities
      /\ s.rebuilds = styles.rebuilds
  BY <1>1 DEF StylesType, Closure
<1>4. Source \in Sources /\ Source' = Source
  BY <1>2, SourceTyped, SourceKept DEF CompatType
<1>5. styles' = Observed(Rebuilt(s), {})
  BY DEF Frame
<1> HIDE DEF s
<1>6. /\ Rebuilt(s) \in Closure /\ Rebuilt(s).installed /\ ~Rebuilt(s).scheduled
      /\ Rebuilt(s).utilities = styles.utilities /\ Rebuilt(s).ruled = styles.utilities
      /\ Rebuilt(s).rebuilds = styles.rebuilds + 1 /\ Rebuilt(s).frames = 0
      /\ Rebuilt(s).resolved = Source
  BY <1>3, <1>4, RebuiltFacts
<1>7. styles' = Rebuilt(s)
  <2>1. Utilities({}) = {}
    BY DEF Utilities
  <2> QED
    BY <1>5, <1>6, <2>1, ObservedFacts
<1> QED
  BY <1>1, <1>2, <1>4, <1>6, <1>7

LEMMA FrameStep == ASSUME CompatInvariant, Frame PROVE CompatInvariant'
<1> USE DEF CompatInvariant
<1>1. /\ styles.installed /\ styles.frames = 1
      /\ UNCHANGED <<engine, page, compat, previews, asked, changes>>
      /\ Source \in Sources /\ Source' = Source
  BY FrameFacts
<1>2. /\ styles' \in Closure /\ styles'.installed /\ ~styles'.scheduled /\ styles'.frames = 0
      /\ styles'.utilities = styles.utilities /\ styles'.ruled = styles.utilities
      /\ styles'.rebuilds = styles.rebuilds + 1 /\ styles'.resolved = Source
  BY FrameFacts
<1>3. styles'.rebuilds + styles'.frames <= 1 + changes'
  <2>1. styles.rebuilds + 1 <= 1 + changes /\ styles.rebuilds \in Nat
    BY <1>1 DEF SheetKept, StylesType, Closure
  <2> QED
    BY <1>1, <1>2, <2>1 DEF CompatType
<1>4. Utilities(page'.classes) \subseteq styles'.utilities /\ PageType' /\ changes' \in Nat
  BY <1>1, <1>2 DEF SheetKept, PageType, CompatType
<1>5. styles'.installed = styles.installed
  BY <1>1, <1>2 DEF Closure, StylesType
<1>6. /\ styles' \in Closure
      /\ styles'.scheduled <=> styles'.frames = 1
      /\ styles'.ruled = styles'.utilities /\ styles'.ruled \subseteq styles'.utilities
      /\ styles'.resolved = Source' /\ styles'.resolved \in Sources
  BY <1>1, <1>2
<1>7. page'.loading = page.loading /\ UNCHANGED <<engine, compat, previews, asked>>
  BY <1>1
<1> QED
  BY <1>1, <1>3, <1>4, <1>5, <1>6, <1>7, StylesStep

\* The turns in which only the previews are counted.
LEMMA PreviewStep ==
    ASSUME CompatInvariant, ThemePreview \/ TimerFires
    PROVE  CompatInvariant'
<1> USE DEF CompatInvariant
<1>1. UNCHANGED <<engine, page, compat, styles, changes>>
  BY DEF ThemePreview, TimerFires
<1>2. StylesType' /\ PageType' /\ CompatType'
  BY <1>1 DEF StylesType, Closure, PageType, CompatType
<1>3. Source' = Source /\ SupportsRenderedColorMix' = SupportsRenderedColorMix
  BY <1>1 DEF Source, SupportsRenderedColorMix
<1>4. InstalledOnce'
  BY <1>1, <1>3 DEF InstalledOnce
<1>5. SheetKept'
  BY <1>1, <1>3 DEF SheetKept
<1>6. CASE ThemePreview
  <2>1. previews' = [previews EXCEPT !.active = @ + 1, !.timers = 1] /\ asked' = asked + 1
        /\ asked < MaxPreviews
    BY <1>6 DEF ThemePreview, RecordThemeProbe
  <2>2. /\ previews' \in [active : Nat, timers : 0..1, count : 0..MaxPreviews,
                           totalCount : Nat, batches : Nat]
        /\ previews'.active = previews.active + 1 /\ previews'.timers = 1
        /\ previews'.totalCount = previews.totalCount /\ previews'.batches = previews.batches
    <3>1. PICK one \in 0..1, n \in Nat : one = 1 /\ n = previews.active + 1
      BY DEF PreviewsInv
    <3>2. previews' = [previews EXCEPT !.active = n, !.timers = one]
      BY <2>1, <3>1
    <3> QED
      BY <3>1, <3>2 DEF PreviewsInv
  <2>3. PreviewsInv'
    BY <2>1, <2>2, CompatAssumption DEF PreviewsInv
  <2> QED
    BY <1>2, <1>4, <1>5, <2>3
<1>7. CASE TimerFires
  <2>1. /\ previews' = [previews EXCEPT !.count = previews.active,
                           !.totalCount = @ + previews.active, !.batches = @ + 1,
                           !.active = 0, !.timers = @ - 1]
        /\ previews.timers > 0 /\ asked' = asked
    BY <1>7 DEF TimerFires, BatchEnded
  <2>2. /\ previews.active > 0 /\ previews.active \in 0..MaxPreviews
        /\ previews.active \in Nat /\ previews.timers = 1
    BY <2>1, CompatAssumption DEF PreviewsInv
  <2>3. /\ previews' \in [active : Nat, timers : 0..1, count : 0..MaxPreviews,
                           totalCount : Nat, batches : Nat]
        /\ previews'.active = 0 /\ previews'.timers = 0
        /\ previews'.totalCount = previews.totalCount + previews.active
        /\ previews'.batches = previews.batches + 1
    <3>1. PICK zero \in 0..1, none \in Nat, n \in Nat, b \in Nat, a \in 0..MaxPreviews :
             /\ zero = 0 /\ none = 0 /\ zero = previews.timers - 1 /\ a = previews.active
             /\ n = previews.totalCount + previews.active /\ b = previews.batches + 1
      BY <2>2 DEF PreviewsInv
    <3>2. previews' = [previews EXCEPT !.count = a, !.totalCount = n, !.batches = b,
                                       !.active = none, !.timers = zero]
      BY <2>1, <3>1
    <3>3. previews \in [active : Nat, timers : 0..1, count : 0..MaxPreviews,
                        totalCount : Nat, batches : Nat]
      BY DEF PreviewsInv
    <3>4. /\ previews' \in [active : Nat, timers : 0..1, count : 0..MaxPreviews,
                             totalCount : Nat, batches : Nat]
          /\ previews'.active = none /\ previews'.timers = zero
          /\ previews'.totalCount = n /\ previews'.batches = b
      BY <3>2, <3>3
    <3> QED
      BY <3>1, <3>4
  <2>4. PreviewsInv'
    BY <2>1, <2>2, <2>3, CompatAssumption DEF PreviewsInv
  <2> QED
    BY <1>2, <1>4, <1>5, <2>4
<1> QED
  BY <1>6, <1>7

LEMMA StepInvariant == CompatInvariant /\ [Next]_vars => CompatInvariant'
<1> SUFFICES ASSUME CompatInvariant, [Next]_vars PROVE CompatInvariant'
  OBVIOUS
<1>1. CASE Evaluate
  BY <1>1, EvaluateStep
<1>2. CASE DocumentParsed
  BY <1>2, DocumentParsedStep
<1>3. CASE \E classes \in PageClasses : ChangeClasses(classes)
  BY <1>3, ChangeClassesStep
<1>4. CASE \E theme \in DocumentThemes : ChangeTheme(theme)
  BY <1>4, ChangeThemeStep
<1>5. CASE ChangePreference
  BY <1>5, ChangePreferenceStep
<1>6. CASE Frame
  BY <1>6, FrameStep
<1>7. CASE ThemePreview \/ TimerFires
  BY <1>7, PreviewStep
<1>8. CASE UNCHANGED vars
  <2>1. Source' = Source /\ SupportsRenderedColorMix' = SupportsRenderedColorMix
    BY <1>8 DEF vars, Source, SupportsRenderedColorMix
  <2> QED
    BY <1>8, <2>1 DEF vars, CompatInvariant, StylesType, Closure, PageType, CompatType,
        InstalledOnce, SheetKept, PreviewsInv
<1> QED
  BY <1>1, <1>2, <1>3, <1>4, <1>5, <1>6, <1>7, <1>8 DEF Next

\* The script's own state is consistent in every reachable state.
THEOREM CompatCorrect == Spec => []CompatInvariant
BY InitInvariant, StepInvariant, PTL DEF Spec

LEMMA InvariantTypes == CompatInvariant => TypeOK
<1> SUFFICES ASSUME CompatInvariant PROVE TypeOK
  OBVIOUS
<1> USE DEF CompatInvariant
<1>1. styles.installed \in BOOLEAN /\ styles.scheduled \in BOOLEAN
  BY DEF StylesType, Closure
<1>2. /\ styles.rebuilds \in Nat /\ styles.frames \in Nat
      /\ styles.resolved \in Sources \cup {Nothing} /\ styles.ruled \subseteq styles.utilities
  BY DEF StylesType, Closure
<1>3. /\ previews \in [active : 0..MaxPreviews, timers : 0..1, count : 0..MaxPreviews,
                        totalCount : 0..MaxPreviews, batches : 0..MaxPreviews]
      /\ ProbesCounted
  BY CompatAssumption DEF PreviewsInv, ProbesCounted
<1> QED
  BY <1>1, <1>2, <1>3 DEF TypeOK, PageType, CompatType

\* Every reachable state is well typed and the previews are accounted for: each
\* theme read is in one batch, and a batch that is open has its timer.
THEOREM TypeCorrect == Spec => []TypeOK
BY CompatCorrect, InvariantTypes, PTL

LEMMA InvariantRebuilds == CompatInvariant => RebuildsAsNeeded
<1> SUFFICES ASSUME CompatInvariant PROVE RebuildsAsNeeded
  OBVIOUS
<1> USE DEF CompatInvariant
<1>1. StaleIsScheduled
  BY DEF StaleIsScheduled, SheetCurrent, SheetKept, StylesType
<1>2. NoFeedback
  <2>1. CASE styles.installed
    BY <2>1 DEF NoFeedback, SheetKept, StylesType, Closure
  <2>2. CASE ~styles.installed
    BY <2>2 DEF NoFeedback, InstalledOnce, StylesType, Closure, CompatType
  <2> QED
    BY <2>1, <2>2
<1> QED
  BY <1>1, <1>2 DEF RebuildsAsNeeded

\* However the page changes its classes and its theme, a style sheet that is out
\* of date has a rebuild coming, and there is at most one rebuild per change.
THEOREM RebuildsCorrect == Spec => []RebuildsAsNeeded
BY CompatCorrect, InvariantRebuilds, PTL

\* A fallback that was installed stays.
LEMMA InstalledKept ==
    ASSUME CompatInvariant, [Next]_vars, styles.installed
    PROVE  styles'.installed
<1>1. compat.present /\ ~compat.listening /\ ~SupportsRenderedColorMix
  BY DEF CompatInvariant, InstalledOnce, CompatType
<1>2. UNCHANGED <<engine, compat>>
  BY <1>1 DEF Next, Evaluate, DocumentParsed, ChangeClasses, ChangeTheme, ChangePreference, Frame,
              ThemePreview, TimerFires, vars
<1>3. CompatInvariant'
  BY StepInvariant
<1> QED
  BY <1>1, <1>2, <1>3 DEF CompatInvariant, InstalledOnce, SupportsRenderedColorMix

\* CatchesUp: as long as frames come, a style sheet that is out of date is replaced
\* by one that is not, whatever the page and the system change meanwhile.  That a
\* frame that is awaited can come is RebuildComes.
THEOREM CatchesUpCorrect == Spec /\ []RebuildComes => CatchesUp
<1> DEFINE Stale == styles.installed /\ ~SheetCurrent
           Current == styles.installed /\ SheetCurrent
<1>1. CompatInvariant /\ Stale /\ [Next]_vars => Stale' \/ Current'
  BY InstalledKept
<1>2. CompatInvariant /\ Stale /\ <<Frame>>_vars => Current'
  <2> SUFFICES ASSUME CompatInvariant, Frame PROVE Current'
    OBVIOUS
  <2>1. styles'.installed /\ ~styles'.scheduled
    BY FrameFacts
  <2>2. CompatInvariant'
    BY FrameStep
  <2> QED
    BY <2>1, <2>2 DEF CompatInvariant, SheetKept, SheetCurrent
<1>3. CompatInvariant /\ Stale /\ RebuildComes => ENABLED <<Frame>>_vars
  <2>1. CompatInvariant /\ Stale => styles.scheduled
    BY DEF CompatInvariant, SheetKept, SheetCurrent
  <2> QED
    BY <2>1 DEF RebuildComes
<1>4. Spec => []CompatInvariant /\ [][Next]_vars /\ WF_vars(Frame)
  BY CompatCorrect, PTL DEF Spec
<1> HIDE DEF Stale, Current
<1>5. Spec /\ []RebuildComes => (Stale ~> Current)
  BY <1>1, <1>2, <1>3, <1>4, PTL
<1> QED
  BY <1>5 DEF CatchesUp, Stale, Current
-----------------------------------------------------------------------------
(* Bounds, and what the probe is read as.                                   *)

LEMMA MinOfTwo ==
    ASSUME NEW a \in Int, NEW b \in Int
    PROVE  Min({a, b}) = IF a <= b THEN a ELSE b
BY DEF Min

LEMMA MaxOfTwo ==
    ASSUME NEW a \in Int, NEW b \in Int
    PROVE  Max({a, b}) = IF a <= b THEN b ELSE a
BY DEF Max

LEMMA ClampKept ==
    \A v, low, high \in Int : low <= v /\ v <= high => Clamp(v, low, high) = v
BY MinOfTwo, MaxOfTwo DEF Clamp

LEMMA ClampRange ==
    \A v, low, high \in Int :
        low <= high => /\ Clamp(v, low, high) \in Int
                       /\ low <= Clamp(v, low, high) /\ Clamp(v, low, high) <= high
BY MinOfTwo, MaxOfTwo DEF Clamp

\* a channel, in hundredths of an 8-bit step, and an opaque colour
Channel == {n \in Int : 0 <= n /\ n <= 25500}
Shades == [red : Channel, green : Channel, blue : Channel, alpha : {100}]

\* Whatever the channels are, a colour has the alpha it was given or is no colour.
LEMMA ColorAlpha ==
    ASSUME NEW r, NEW g, NEW b, NEW a \in 0..100
    PROVE  Color(r, g, b, a).alpha \in {-1, a}
<1>1. Clamp(a, 0, 100) = a
  BY ClampKept
<1>2. CASE NaN \in {r, g, b, a}
  <2>1. Color(r, g, b, a) = NoColor
    BY <1>2 DEF Color
  <2> QED
    BY <2>1 DEF NoColor
<1>3. CASE ~(NaN \in {r, g, b, a})
  BY <1>1, <1>3 DEF Color
<1> QED
  BY <1>2, <1>3

Shade(r, g, b, a) == [red |-> r, green |-> g, blue |-> b, alpha |-> a]

\* Channels in range are kept.
LEMMA ColorKept ==
    \A r, g, b \in Channel : \A a \in 0..100 : Color(r, g, b, a) = Shade(r, g, b, a)
<1> TAKE r, g, b \in Channel
<1> TAKE a \in 0..100
<1>1. ~(NaN \in {r, g, b, a})
  BY DEF NaN, Channel
<1>2. /\ Clamp(r, 0, 25500) = r /\ Clamp(g, 0, 25500) = g /\ Clamp(b, 0, 25500) = b
      /\ Clamp(a, 0, 100) = a
  BY ClampKept DEF Channel
<1> QED
  BY <1>1, <1>2 DEF Color, Shade

LEMMA EncodeAlpha ==
    ASSUME NEW rows, NEW v, NEW a \in 0..100
    PROVE  Encode(rows, v, a).alpha \in {-1, a}
BY ColorAlpha DEF Encode

LEMMA LabAlpha ==
    ASSUME NEW x, NEW y, NEW z, NEW a \in 0..100
    PROVE  LabToSRGB(x, y, z, a).alpha \in {-1, a}
<1> DEFINE fy == (x + 160000) \div 116
           inverse(f) == IF Cube(f) > 886 THEN Cube(f) ELSE ((116 * f - 160000) * 100) \div 9033
           xyz == <<(inverse(fy + y \div 500) * 9642) \div 10000, inverse(fy),
                    (inverse(fy - z \div 200) * 8252) \div 10000>>
           light == ToD65(xyz)
           rows == << <<3240, -1537, -499>>, <<-969, 1876, 42>>, <<56, -204, 1057>> >>
<1>1. LabToSRGB(x, y, z, a) = Encode(rows, light, a)
  BY DEF LabToSRGB
<1> HIDE DEF rows, light
<1> QED
  BY <1>1, EncodeAlpha

LEMMA OklabAlpha ==
    ASSUME NEW x, NEW y, NEW z, NEW a \in 0..100
    PROVE  OklabToSRGB(x, y, z, a).alpha \in {-1, a}
<1> DEFINE lms == <<x + (3964 * y + 2158 * z) \div 10000, x - (1056 * y + 639 * z) \div 10000,
                    x - (895 * y + 12915 * z) \div 10000>>
           light == [i \in 1..3 |-> Cube(lms[i])]
           rows == << <<4077, -3308, 231>>, <<-1268, 2610, -341>>, <<-4, -703, 1708>> >>
<1>1. OklabToSRGB(x, y, z, a) = Encode(rows, light, a)
  BY DEF OklabToSRGB
<1> HIDE DEF rows, light
<1> QED
  BY <1>1, EncodeAlpha

\* A conversion keeps the alpha, or finds that something is no number.
LEMMA ConvertedAlpha ==
    ASSUME NEW x, NEW y, NEW z, NEW a \in 0..100
    PROVE  /\ Converted(x, y, z, a, RgbToSRGB).alpha \in {-1, a}
           /\ Converted(x, y, z, a, UnitToSRGB).alpha \in {-1, a}
           /\ Converted(x, y, z, a, LabToSRGB).alpha \in {-1, a}
           /\ Converted(x, y, z, a, OklabToSRGB).alpha \in {-1, a}
           /\ Converted(x, y, z, a, LchToSRGB).alpha \in {-1, a}
           /\ Converted(x, y, z, a, OklchToSRGB).alpha \in {-1, a}
<1>1. NoColor.alpha \in {-1, a}
  BY DEF NoColor
<1>2. RgbToSRGB(x, y, z, a).alpha \in {-1, a}
  <2> DEFINE r == x \div 100  g == y \div 100  b == z \div 100
  <2>1. RgbToSRGB(x, y, z, a) = Color(r, g, b, a)
    BY DEF RgbToSRGB
  <2> HIDE DEF r, g, b
  <2> QED
    BY <2>1, ColorAlpha
<1>3. UnitToSRGB(x, y, z, a).alpha \in {-1, a}
  <2> DEFINE r == (x * 255) \div 100  g == (y * 255) \div 100  b == (z * 255) \div 100
  <2>1. UnitToSRGB(x, y, z, a) = Color(r, g, b, a)
    BY DEF UnitToSRGB
  <2> HIDE DEF r, g, b
  <2> QED
    BY <2>1, ColorAlpha
<1>4. LchToSRGB(x, y, z, a).alpha \in {-1, a}
  BY LabAlpha DEF LchToSRGB
<1>5. OklchToSRGB(x, y, z, a).alpha \in {-1, a}
  BY OklabAlpha DEF OklchToSRGB
<1>6. LabToSRGB(x, y, z, a).alpha \in {-1, a} /\ OklabToSRGB(x, y, z, a).alpha \in {-1, a}
  BY LabAlpha, OklabAlpha
<1>7. Converted(x, y, z, a, RgbToSRGB).alpha \in {-1, a}
  BY <1>1, <1>2 DEF Converted
<1>8. Converted(x, y, z, a, UnitToSRGB).alpha \in {-1, a}
  BY <1>1, <1>3 DEF Converted
<1>9. Converted(x, y, z, a, LabToSRGB).alpha \in {-1, a}
  BY <1>1, <1>6 DEF Converted
<1>10. Converted(x, y, z, a, OklabToSRGB).alpha \in {-1, a}
  BY <1>1, <1>6 DEF Converted
<1>11. Converted(x, y, z, a, LchToSRGB).alpha \in {-1, a}
  BY <1>1, <1>4 DEF Converted
<1>12. Converted(x, y, z, a, OklchToSRGB).alpha \in {-1, a}
  BY <1>1, <1>5 DEF Converted
<1> QED
  BY <1>7, <1>8, <1>9, <1>10, <1>11, <1>12

LEMMA AlphaRead == AlphaComponent(Absent) = 100 /\ AlphaComponent(Number(0)) = 0
<1>1. AlphaComponent(Absent) = 100
  BY DEF AlphaComponent
<1>2. Component(Number(0), 1, 100) = 0
  BY DEF Component, Number
<1>3. Number(0) # Absent /\ 0 # NaN
  BY DEF Number, Absent, NaN
<1>4. Clamp(0 \div 100, 0, 100) = 0
  BY ClampKept
<1>5. AlphaComponent(Number(0)) = Clamp(0 \div 100, 0, 100)
  BY <1>2, <1>3 DEF AlphaComponent
<1> QED
  BY <1>1, <1>4, <1>5

\* An alpha of nothing or of everything is told from one half.
LEMMA AlphaTells ==
    ASSUME NEW c, c.alpha \in {-1, 0, 100}
    PROVE  ~IsExpectedProbe(c)
BY DEF IsExpectedProbe, Distance

\* parseRenderedColor, by notation
LEMMA ParseCases ==
    ASSUME NEW v
    PROVE  LET c == v.channels
               alpha == AlphaComponent(v.alpha)
               parsed == ParseRenderedColor(v)
           IN  /\ v.form = "transparent" => parsed = Color(0, 0, 0, 0)
               /\ v.form = "hex" => parsed = ParseHex(c)
               /\ v.form = "rgb" /\ Len(c) \in {3, 4} =>
                    parsed = Converted(Component(c[1], 51, 20), Component(c[2], 51, 20),
                                       Component(c[3], 51, 20), AlphaComponent(RgbAlpha(v)),
                                       RgbToSRGB)
               /\ v.form = "srgb" /\ Len(c) = 3 =>
                    parsed = Converted(NumberOf(c[1]), NumberOf(c[2]), NumberOf(c[3]), alpha,
                                       UnitToSRGB)
               /\ v.form = "lab" /\ Len(c) = 3 =>
                    parsed = Converted(Component(c[1], 1, 1), Component(c[2], 5, 4),
                                       Component(c[3], 5, 4), alpha, LabToSRGB)
               /\ v.form = "oklab" /\ Len(c) = 3 =>
                    parsed = Converted(Component(c[1], 1, 100), Component(c[2], 1, 250),
                                       Component(c[3], 1, 250), alpha, OklabToSRGB)
               /\ v.form = "lch" /\ Len(c) = 3 =>
                    parsed = Converted(Component(c[1], 1, 1), Component(c[2], 3, 2),
                                       NumberOf(c[3]), alpha, LchToSRGB)
               /\ v.form = "oklch" /\ Len(c) = 3 =>
                    parsed = Converted(Component(c[1], 1, 100), Component(c[2], 1, 250),
                                       NumberOf(c[3]), alpha, OklchToSRGB)
               /\ \/ v.form \notin {"transparent", "hex", "rgb", "srgb", "lab", "oklab", "lch", "oklch"}
                  \/ v.form = "rgb" /\ Len(c) \notin {3, 4}
                  \/ v.form \in {"srgb", "lab", "oklab", "lch", "oklch"} /\ Len(c) # 3
                  => parsed = NoColor
<1> DEFINE c == v.channels
           alpha == AlphaComponent(v.alpha)
           parsed == ParseRenderedColor(v)
<1>1. v.form = "transparent" => parsed = Color(0, 0, 0, 0)
  BY DEF ParseRenderedColor
<1>2. v.form = "hex" => parsed = ParseHex(c)
  BY DEF ParseRenderedColor
<1>3. v.form = "rgb" /\ Len(c) \in {3, 4} =>
        parsed = Converted(Component(c[1], 51, 20), Component(c[2], 51, 20),
                           Component(c[3], 51, 20), AlphaComponent(RgbAlpha(v)), RgbToSRGB)
  BY DEF ParseRenderedColor
<1>4. v.form = "srgb" /\ Len(c) = 3 =>
        parsed = Converted(NumberOf(c[1]), NumberOf(c[2]), NumberOf(c[3]), alpha, UnitToSRGB)
  BY DEF ParseRenderedColor
<1>5. v.form = "lab" /\ Len(c) = 3 =>
        parsed = Converted(Component(c[1], 1, 1), Component(c[2], 5, 4),
                           Component(c[3], 5, 4), alpha, LabToSRGB)
  BY DEF ParseRenderedColor
<1>6. v.form = "oklab" /\ Len(c) = 3 =>
        parsed = Converted(Component(c[1], 1, 100), Component(c[2], 1, 250),
                           Component(c[3], 1, 250), alpha, OklabToSRGB)
  BY DEF ParseRenderedColor
<1>7. v.form = "lch" /\ Len(c) = 3 =>
        parsed = Converted(Component(c[1], 1, 1), Component(c[2], 3, 2), NumberOf(c[3]),
                           alpha, LchToSRGB)
  BY DEF ParseRenderedColor
<1>8. v.form = "oklch" /\ Len(c) = 3 =>
        parsed = Converted(Component(c[1], 1, 100), Component(c[2], 1, 250), NumberOf(c[3]),
                           alpha, OklchToSRGB)
  BY DEF ParseRenderedColor
<1>9. \/ v.form \notin {"transparent", "hex", "rgb", "srgb", "lab", "oklab", "lch", "oklch"}
      \/ v.form = "rgb" /\ Len(c) \notin {3, 4}
      \/ v.form \in {"srgb", "lab", "oklab", "lch", "oklch"} /\ Len(c) # 3
      => parsed = NoColor
  BY DEF ParseRenderedColor
<1> HIDE DEF parsed, alpha
<1> QED
  BY <1>1, <1>2, <1>3, <1>4, <1>5, <1>6, <1>7, <1>8, <1>9 DEF parsed, alpha

LEMMA UnmixedUnexpected ==
    ASSUME NEW text, LeavesUnmixed(text)
    PROVE  ~IsExpectedProbe(ParseRenderedColor(text))
<1> DEFINE c == text.channels
           parsed == ParseRenderedColor(text)
<1>1. SUFFICES parsed.alpha \in {-1, 0, 100}
  BY <1>1, AlphaTells
<1>2. CASE text.form = "transparent"
  <2>1. parsed = Color(0, 0, 0, 0)
    BY <1>2, ParseCases
  <2> HIDE DEF parsed
  <2>2. Color(0, 0, 0, 0).alpha \in {-1, 0}
    BY ColorAlpha
  <2> QED
    BY <2>1, <2>2
<1>3. CASE text.form # "transparent"
  <2>1. CASE text.form \notin {"hex", "rgb", "srgb", "lab", "oklab", "lch", "oklch"}
    <3>1. parsed = NoColor
      BY <1>3, <2>1, ParseCases
    <3> QED
      BY <3>1 DEF NoColor
  <2>2. CASE text.form \in {"hex", "rgb", "srgb", "lab", "oklab", "lch", "oklch"}
    <3>1. text.form # "hex" /\ RgbAlpha(text) \in {Absent, Number(0)}
      BY <1>3, <2>2 DEF LeavesUnmixed
    <3>2. PICK a \in 0..100 : a = AlphaComponent(RgbAlpha(text)) /\ a \in {0, 100}
      BY <3>1, AlphaRead
    <3>3. CASE text.form = "rgb" /\ Len(c) \in {3, 4}
      <4> DEFINE x == Component(c[1], 51, 20)
                 y == Component(c[2], 51, 20)
                 z == Component(c[3], 51, 20)
      <4>1. parsed = Converted(x, y, z, a, RgbToSRGB)
        BY <3>2, <3>3, ParseCases
      <4> HIDE DEF parsed, x, y, z
      <4>2. parsed.alpha \in {-1, a}
        BY <4>1, ConvertedAlpha
      <4> QED
        BY <3>2, <4>2
    <3>4. CASE \/ text.form = "rgb" /\ Len(c) \notin {3, 4}
               \/ text.form # "rgb" /\ Len(c) # 3
      <4>1. parsed = NoColor
        BY <2>2, <3>1, <3>4, ParseCases
      <4> QED
        BY <4>1 DEF NoColor
    <3>5. CASE text.form # "rgb" /\ Len(c) = 3
      <4>1. a = AlphaComponent(text.alpha)
        BY <3>2, <3>5 DEF RgbAlpha
      <4>2. PICK x, y, z :
               \/ parsed = Converted(x, y, z, a, UnitToSRGB)
               \/ parsed = Converted(x, y, z, a, LabToSRGB)
               \/ parsed = Converted(x, y, z, a, OklabToSRGB)
               \/ parsed = Converted(x, y, z, a, LchToSRGB)
               \/ parsed = Converted(x, y, z, a, OklchToSRGB)
        <5>1. CASE text.form = "srgb"
          BY <3>5, <4>1, <5>1, ParseCases
        <5>2. CASE text.form = "lab"
          BY <3>5, <4>1, <5>2, ParseCases
        <5>3. CASE text.form = "oklab"
          BY <3>5, <4>1, <5>3, ParseCases
        <5>4. CASE text.form = "lch"
          BY <3>5, <4>1, <5>4, ParseCases
        <5>5. CASE text.form = "oklch"
          BY <3>5, <4>1, <5>5, ParseCases
        <5> QED
          BY <2>2, <3>1, <3>5, <5>1, <5>2, <5>3, <5>4, <5>5
      <4> HIDE DEF parsed
      <4>3. parsed.alpha \in {-1, a}
        <5>1. /\ Converted(x, y, z, a, UnitToSRGB).alpha \in {-1, a}
              /\ Converted(x, y, z, a, LabToSRGB).alpha \in {-1, a}
              /\ Converted(x, y, z, a, OklabToSRGB).alpha \in {-1, a}
              /\ Converted(x, y, z, a, LchToSRGB).alpha \in {-1, a}
              /\ Converted(x, y, z, a, OklchToSRGB).alpha \in {-1, a}
          BY ConvertedAlpha
        <5> QED
          BY <4>2, <5>1
      <4> QED
        BY <3>2, <4>3
    <3> QED
      BY <3>3, <3>4, <3>5
  <2> QED
    BY <2>1, <2>2
<1> QED
  BY <1>2, <1>3

LEMMA SaysBounds ==
    ASSUME NEW token, NEW kind, NEW n \in Int, NEW slack \in Int, Says(token, kind, n, slack)
    PROVE  token.kind = kind /\ token.n \in Int /\ n - slack <= token.n /\ token.n <= n + slack
BY DEF Says

\* A colour near rgb(64, 128, 192) at near half opacity is the one expected.
LEMMA NearExpected ==
    ASSUME NEW r \in Int, NEW g \in Int, NEW b \in Int, NEW a \in Int,
           6300 <= r, r <= 6500, 12700 <= g, g <= 12900, 19100 <= b, b <= 19300,
           48 <= a, a <= 52
    PROVE  IsExpectedProbe(Color(r, g, b, a))
<1>1. r \in Channel /\ g \in Channel /\ b \in Channel /\ a \in 0..100
  BY DEF Channel
<1>2. Color(r, g, b, a) = Shade(r, g, b, a)
  BY <1>1, ColorKept
<1> DEFINE c == Shade(r, g, b, a)
<1>3. c.red = r /\ c.green = g /\ c.blue = b /\ c.alpha = a
  BY DEF Shade
<1> HIDE DEF c
<1>4. c # NoColor
  BY <1>3 DEF NoColor
<1>5. /\ Distance(r, 6400) <= 100 /\ Distance(g, 12800) <= 100
      /\ Distance(b, 19200) <= 100 /\ Distance(a, 50) <= 2
  BY DEF Distance
<1>6. IsExpectedProbe(c)
  BY <1>3, <1>4, <1>5 DEF IsExpectedProbe
<1> QED
  BY <1>2, <1>6 DEF c

LEMMA HalfRead ==
    ASSUME NEW token, Says(token, "number", 5000, 200) \/ Says(token, "percent", 500000, 20000)
    PROVE  LET a == AlphaComponent(token) IN a \in Int /\ 48 <= a /\ a <= 52
<1> DEFINE alpha == Component(token, 1, 100)
<1>1. /\ token.n \in Int
      /\ \/ token.kind = "number" /\ 4800 <= token.n /\ token.n <= 5200
         \/ token.kind = "percent" /\ 480000 <= token.n /\ token.n <= 520000
  <2>1. CASE Says(token, "number", 5000, 200)
    BY <2>1, SaysBounds
  <2>2. CASE Says(token, "percent", 500000, 20000)
    BY <2>2, SaysBounds
  <2> QED
    BY <2>1, <2>2
<1>2. token # Absent
  BY <1>1 DEF Absent
<1>3. alpha \in Int /\ 4800 <= alpha /\ alpha <= 5200
  <2>1. CASE token.kind = "number"
    BY <1>1, <2>1 DEF Component
  <2>2. CASE token.kind = "percent"
    <3>1. alpha = (token.n * 1) \div 100
      BY <2>2 DEF Component
    <3> QED
      BY <1>1, <2>2, <3>1
  <2> QED
    BY <1>1, <2>1, <2>2
<1>4. AlphaComponent(token) = IF alpha = NaN THEN NaN ELSE Clamp(alpha \div 100, 0, 100)
  BY <1>2 DEF AlphaComponent
<1> HIDE DEF alpha
<1>5. alpha # NaN
  BY <1>3 DEF NaN
<1>6. PICK a \in Int : a = alpha \div 100 /\ 48 <= a /\ a <= 52
  BY <1>3
<1>7. Clamp(a, 0, 100) = a
  BY <1>6, ClampKept
<1> QED
  BY <1>4, <1>5, <1>6, <1>7

\* A channel of 64, 128 or 192, told as a number or as a percentage.
LEMMA ChannelRead ==
    ASSUME NEW token, NEW i \in 1..3,
           \/ Says(token, "number", <<640000, 1280000, 1920000>>[i], 10000)
           \/ Says(token, "percent", <<250980, 501961, 752941>>[i], 3900)
    PROVE  LET n == Component(token, 51, 20)
           IN  /\ n \in Int /\ n \div 100 \in Int
               /\ 6400 * i - 100 <= n \div 100 /\ n \div 100 <= 6400 * i + 100
<1> DEFINE n == Component(token, 51, 20)
<1>1. /\ token.n \in Int
      /\ \/ /\ token.kind = "number"
            /\ 640000 * i - 10000 <= token.n /\ token.n <= 640000 * i + 10000
         \/ /\ token.kind = "percent"
            /\ 250980 * i - 3900 <= token.n /\ token.n <= 250981 * i + 3900
  <2>1. CASE Says(token, "number", <<640000, 1280000, 1920000>>[i], 10000)
    <3>1. PICK m \in Int : m = <<640000, 1280000, 1920000>>[i] /\ m = 640000 * i
      OBVIOUS
    <3> QED
      BY <2>1, <3>1, SaysBounds
  <2>2. CASE Says(token, "percent", <<250980, 501961, 752941>>[i], 3900)
    <3>1. PICK m \in Int : /\ m = <<250980, 501961, 752941>>[i]
                           /\ 250980 * i <= m /\ m <= 250981 * i
      OBVIOUS
    <3> QED
      BY <2>2, <3>1, SaysBounds
  <2> QED
    BY <2>1, <2>2
<1>2. n \in Int /\ 640000 * i - 10000 <= n /\ n <= 640000 * i + 10000
  <2>1. CASE token.kind = "number"
    BY <1>1, <2>1 DEF Component
  <2>2. CASE token.kind = "percent"
    <3>1. n = (token.n * 51) \div 20
      BY <2>2 DEF Component
    <3>2. /\ 640000 * i - 10000 <= (token.n * 51) \div 20
          /\ (token.n * 51) \div 20 <= 640000 * i + 10000
      BY <1>1, <2>2
    <3> QED
      BY <1>1, <3>1, <3>2
  <2> QED
    BY <1>1, <2>1, <2>2
<1> HIDE DEF n
<1>3. n \div 100 \in Int /\ 6400 * i - 100 <= n \div 100 /\ n \div 100 <= 6400 * i + 100
  BY <1>2
<1> QED
  BY <1>2, <1>3 DEF n
-----------------------------------------------------------------------------
(* The table of the transfer function, and a probe told in oklab().         *)

LEMMA LinearTable ==
    /\ DOMAIN Linear = 1..86
    /\ \A i \in 1..86 : Linear[i] \in Int
    /\ \A i \in 1..85 : Linear[i] < Linear[i + 1]
<1>1. DOMAIN Linear = 1..86
  BY SMTT(60) DEF Linear
<1>2. \A i \in 1..86 : Linear[i] \in Int
  BY SMTT(60) DEF Linear
<1>3. \A i \in 1..85 : Linear[i] < Linear[i + 1]
  BY SMTT(60) DEF Linear
<1> QED
  BY <1>1, <1>2, <1>3

\* the table grows
LEMMA LinearGrows ==
    /\ \A i \in 1..86 : Linear[i] \in Int
    /\ \A i, k \in 1..86 : i <= k => Linear[i] <= Linear[k]
<1>1. \A i, k \in 1..86 : i <= k => Linear[i] <= Linear[k]
  BY SMTT(60) DEF Linear
<1> QED
  BY <1>1, LinearTable

LEMMA LinearRange == \A i \in 1..86 : 0 <= Linear[i] /\ Linear[i] <= 100000
BY SMTT(60) DEF Linear

Around(i, low, high, v) ==
    low = Linear[i] /\ high = Linear[i + 1] /\ low <= v /\ v < high

Steps(i, low, high, v) == 300 * (i - 1) + (300 * (v - low)) \div (high - low)

\* Between two neighbours of the table a light is interpolated.
LEMMA EncodedBetween ==
    \A i \in 1..85 : \A low, high, v \in Int :
        Around(i, low, high, v) => EncodedSRGB(v) = Steps(i, low, high, v)
<1> TAKE i \in 1..85
<1> TAKE low, high, v \in Int
<1> HAVE Around(i, low, high, v)
<1>0. low = Linear[i] /\ high = Linear[i + 1] /\ Linear[i] <= v /\ v < Linear[i + 1]
  BY DEF Around
<1>1. i \in 1..86 /\ i + 1 \in 1..86 /\ i # 86
  OBVIOUS
<1>2. 0 <= v /\ v <= 100000 /\ Linear[i] \in Int /\ Linear[i + 1] \in Int
  BY <1>0, <1>1, LinearTable, LinearRange
<1>3. Clamp(v, 0, 100000) = v
  BY <1>2, ClampKept
<1>4. PICK j, h \in 1..86 : j = i + 1 /\ h = i
  BY <1>1
<1> DEFINE Fits(k) == Linear[k] <= v /\ (k = 86 \/ v < Linear[k + 1])
<1>5. ASSUME NEW k \in 1..86, Fits(k)
      PROVE  k = i
  <2>1. CASE k > i
    <3>1. j <= k
      BY <1>4, <2>1
    <3>2. Linear[j] <= Linear[k] /\ Linear[j] \in Int /\ Linear[k] \in Int
      BY <3>1, LinearGrows
    <3> QED
      BY <1>0, <1>4, <1>5, <3>2
  <2>2. CASE k < i
    <3>1. PICK n \in 1..86 : n = k + 1 /\ n <= h
      BY <1>4, <2>2
    <3>2. Linear[n] <= Linear[h] /\ Linear[n] \in Int /\ Linear[h] \in Int
      BY <3>1, LinearGrows
    <3>3. v < Linear[n]
      BY <1>5, <2>2, <3>1
    <3> QED
      BY <1>0, <1>4, <3>2, <3>3
  <2> QED
    BY <2>1, <2>2
<1>6. Fits(i)
  BY <1>0, <1>1
<1> DEFINE Place(w, m) == IF m = 86 THEN 25500
                          ELSE 300 * (m - 1) + (300 * (w - Linear[m])) \div (Linear[m + 1] - Linear[m])
           Fitting(w) == CHOOSE k \in 1..86 : Linear[k] <= w /\ (k = 86 \/ w < Linear[k + 1])
<1>7. EncodedSRGB(v) = Place(Clamp(v, 0, 100000), Fitting(Clamp(v, 0, 100000)))
  BY DEF EncodedSRGB
<1> HIDE DEF Place
<1>8. Fitting(v) = CHOOSE k \in 1..86 : Fits(k)
  OBVIOUS
<1> HIDE DEF Fits, Fitting
<1>9. (CHOOSE k \in 1..86 : Fits(k)) = i
  <2>1. \E k \in 1..86 : Fits(k)
    BY <1>1, <1>6
  <2>2. (CHOOSE k \in 1..86 : Fits(k)) \in 1..86 /\ Fits(CHOOSE k \in 1..86 : Fits(k))
    BY <2>1, Zenon
  <2> QED
    BY <1>5, <2>2, Zenon
<1>10. EncodedSRGB(v) = Place(v, Fitting(v))
  BY <1>3, <1>7
<1>11. Fitting(v) = i
  BY <1>8, <1>9
<1> QED
  BY <1>0, <1>1, <1>10, <1>11 DEF Place, Steps

\* the lights of rgb(64, 128, 192), with the slack of four digits
LEMMA ProbeLight ==
    \A r, g, b \in Int :
        /\ 4986 <= r /\ r <= 5181 =>
             6300 <= EncodedSRGB(r) /\ EncodedSRGB(r) <= 6500 /\ EncodedSRGB(r) \in Int
        /\ 21576 <= g /\ g <= 21687 =>
             12700 <= EncodedSRGB(g) /\ EncodedSRGB(g) <= 12900 /\ EncodedSRGB(g) \in Int
        /\ 52693 <= b /\ b <= 52819 =>
             19100 <= EncodedSRGB(b) /\ EncodedSRGB(b) <= 19300 /\ EncodedSRGB(b) \in Int
<1> TAKE r, g, b \in Int
<1>1. /\ Linear[22] = 4971 /\ Linear[23] = 5448 /\ Linear[43] = 20864 /\ Linear[44] = 21953
      /\ Linear[64] = 50888 /\ Linear[65] = 52712 /\ Linear[66] = 54572
  BY SMTT(60) DEF Linear
<1>2. ASSUME 4986 <= r, r <= 5181
      PROVE  6300 <= EncodedSRGB(r) /\ EncodedSRGB(r) <= 6500 /\ EncodedSRGB(r) \in Int
  <2>1. PICK i \in 1..85, low, high \in Int : i = 22 /\ low = 4971 /\ high = 5448
    OBVIOUS
  <2>2. Around(i, low, high, r)
    BY <1>1, <1>2, <2>1 DEF Around
  <2>3. EncodedSRGB(r) = Steps(i, low, high, r)
    BY <2>2, EncodedBetween
  <2>4. EncodedSRGB(r) = 6300 + (300 * (r - 4971)) \div 477
    BY <2>1, <2>3 DEF Steps
  <2> QED
    BY <1>2, <2>4
<1>3. ASSUME 21576 <= g, g <= 21687
      PROVE  12700 <= EncodedSRGB(g) /\ EncodedSRGB(g) <= 12900 /\ EncodedSRGB(g) \in Int
  <2>1. PICK i \in 1..85, low, high \in Int : i = 43 /\ low = 20864 /\ high = 21953
    OBVIOUS
  <2>2. Around(i, low, high, g)
    BY <1>1, <1>3, <2>1 DEF Around
  <2>3. EncodedSRGB(g) = Steps(i, low, high, g)
    BY <2>2, EncodedBetween
  <2>4. EncodedSRGB(g) = 12600 + (300 * (g - 20864)) \div 1089
    BY <2>1, <2>3 DEF Steps
  <2> QED
    BY <1>3, <2>4
<1>4. ASSUME 52693 <= b, b <= 52819
      PROVE  19100 <= EncodedSRGB(b) /\ EncodedSRGB(b) <= 19300 /\ EncodedSRGB(b) \in Int
  <2>1. CASE b < 52712
    <3>1. PICK i \in 1..85, low, high \in Int : i = 64 /\ low = 50888 /\ high = 52712
      OBVIOUS
    <3>2. Around(i, low, high, b)
      BY <1>1, <1>4, <2>1, <3>1 DEF Around
    <3>3. EncodedSRGB(b) = Steps(i, low, high, b)
      BY <3>2, EncodedBetween
    <3>4. EncodedSRGB(b) = 18900 + (300 * (b - 50888)) \div 1824
      BY <3>1, <3>3 DEF Steps
    <3> QED
      BY <1>4, <2>1, <3>4
  <2>2. CASE b >= 52712
    <3>1. PICK i \in 1..85, low, high \in Int : i = 65 /\ low = 52712 /\ high = 54572
      OBVIOUS
    <3>2. Around(i, low, high, b)
      BY <1>1, <1>4, <2>2, <3>1 DEF Around
    <3>3. EncodedSRGB(b) = Steps(i, low, high, b)
      BY <3>2, EncodedBetween
    <3>4. EncodedSRGB(b) = 19200 + (300 * (b - 52712)) \div 1860
      BY <3>1, <3>3 DEF Steps
    <3> QED
      BY <1>4, <2>2, <3>4
  <2> QED
    BY <2>1, <2>2
<1> QED
  BY <1>2, <1>3, <1>4

LEMMA OklabProbe ==
    ASSUME NEW l \in Int, NEW a \in Int, NEW b \in Int, NEW alpha \in Int,
           5871 <= l, l <= 5873, -396 <= a, a <= -394, -1120 <= b, b <= -1118,
           48 <= alpha, alpha <= 52
    PROVE  IsExpectedProbe(OklabToSRGB(l, a, b, alpha))
<1> DEFINE x == l + (3964 * a + 2158 * b) \div 10000
           y == l - (1056 * a +  639 * b) \div 10000
           z == l - ( 895 * a + 12915 * b) \div 10000
           lms == <<x, y, z>>
           light == [i \in 1..3 |-> Cube(lms[i])]
           rows == << <<4077, -3308, 231>>, <<-1268, 2610, -341>>, <<-4, -703, 1708>> >>
<1>1. /\ x \in Int /\ 5472 <= x /\ x <= 5475
      /\ y \in Int /\ 5985 <= y /\ y <= 5987
      /\ z \in Int /\ 7351 <= z /\ z <= 7355
  OBVIOUS
<1>2. OklabToSRGB(l, a, b, alpha) = Encode(rows, light, alpha)
  BY DEF OklabToSRGB
<1> HIDE DEF x, y, z
<1>3. /\ x \in {5472, 5473, 5474, 5475} /\ y \in {5985, 5986, 5987}
      /\ z \in {7351, 7352, 7353, 7354, 7355}
  BY <1>1
<1>4. PICK u, v, w \in Int : /\ u = Cube(x) /\ 16384 <= u /\ u <= 16411
                             /\ v = Cube(y) /\ 21438 <= v /\ v <= 21459
                             /\ w = Cube(z) /\ 39722 <= w /\ w <= 39787
  <2>1. Cube(x) \in Int /\ 16384 <= Cube(x) /\ Cube(x) <= 16411
    BY <1>3 DEF Cube
  <2>2. Cube(y) \in Int /\ 21438 <= Cube(y) /\ Cube(y) <= 21459
    BY <1>3 DEF Cube
  <2>3. Cube(z) \in Int /\ 39722 <= Cube(z) /\ Cube(z) <= 39787
    BY <1>3 DEF Cube
  <2> QED
    BY <2>1, <2>2, <2>3
<1>5. light[1] = u /\ light[2] = v /\ light[3] = w
  BY <1>4
<1>6. /\ rows[1] = <<4077, -3308, 231>> /\ rows[2] = <<-1268, 2610, -341>>
      /\ rows[3] = <<-4, -703, 1708>>
  OBVIOUS
<1> HIDE DEF light, rows, lms
<1>7. /\ Dot(rows[1], light) = (4077 * u + (-3308) * v + 231 * w) \div 1000
      /\ Dot(rows[2], light) = ((-1268) * u + 2610 * v + (-341) * w) \div 1000
      /\ Dot(rows[3], light) = ((-4) * u + (-703) * v + 1708 * w) \div 1000
  BY <1>5, <1>6 DEF Dot
<1>8. PICK r, g, b1 \in Int :
        /\ r = (4077 * u + (-3308) * v + 231 * w) \div 1000 /\ 4986 <= r /\ r <= 5181
        /\ g = ((-1268) * u + 2610 * v + (-341) * w) \div 1000 /\ 21576 <= g /\ g <= 21687
        /\ b1 = ((-4) * u + (-703) * v + 1708 * w) \div 1000 /\ 52693 <= b1 /\ b1 <= 52819
  <2>1. PICK r \in Int : r = (4077 * u + (-3308) * v + 231 * w) \div 1000 /\ 4986 <= r /\ r <= 5181
    BY <1>4
  <2>2. PICK g \in Int : g = ((-1268) * u + 2610 * v + (-341) * w) \div 1000 /\ 21576 <= g /\ g <= 21687
    BY <1>4
  <2>3. PICK b1 \in Int : b1 = ((-4) * u + (-703) * v + 1708 * w) \div 1000 /\ 52693 <= b1 /\ b1 <= 52819
    BY <1>4
  <2> QED
    BY <2>1, <2>2, <2>3
<1>9. Encode(rows, light, alpha) = Color(EncodedSRGB(r), EncodedSRGB(g), EncodedSRGB(b1), alpha)
  BY <1>7, <1>8 DEF Encode
<1>10. /\ 6300 <= EncodedSRGB(r) /\ EncodedSRGB(r) <= 6500 /\ EncodedSRGB(r) \in Int
       /\ 12700 <= EncodedSRGB(g) /\ EncodedSRGB(g) <= 12900 /\ EncodedSRGB(g) \in Int
       /\ 19100 <= EncodedSRGB(b1) /\ EncodedSRGB(b1) <= 19300 /\ EncodedSRGB(b1) \in Int
  BY <1>8, ProbeLight
<1>11. IsExpectedProbe(Color(EncodedSRGB(r), EncodedSRGB(g), EncodedSRGB(b1), alpha))
  BY <1>10, NearExpected
<1> QED
  BY <1>2, <1>9, <1>11

\* What an engine with color-mix() renders is recognized, however it is told.
LEMMA MixedExpected ==
    ASSUME NEW text, RendersMix(text)
    PROVE  IsExpectedProbe(ParseRenderedColor(text))
<1> DEFINE c == text.channels
           half == RgbAlpha(text)
           parsed == ParseRenderedColor(text)
<1>1. PICK a \in Int : a = AlphaComponent(half) /\ 48 <= a /\ a <= 52
  <2>1. Says(half, "number", 5000, 200) \/ Says(half, "percent", 500000, 20000)
    BY DEF RendersMix
  <2> HIDE DEF half
  <2> QED
    BY <2>1, HalfRead
<1>2. CASE /\ text.form = "rgb" /\ Len(c) \in {3, 4}
           /\ \A i \in 1..3 :
                \/ Says(c[i], "number", <<640000, 1280000, 1920000>>[i], 10000)
                \/ Says(c[i], "percent", <<250980, 501961, 752941>>[i], 3900)
  <2>1. PICK x, y, z \in Int : /\ x = Component(c[1], 51, 20) /\ y = Component(c[2], 51, 20)
                               /\ z = Component(c[3], 51, 20)
                               /\ 6300 <= x \div 100 /\ x \div 100 <= 6500
                               /\ 12700 <= y \div 100 /\ y \div 100 <= 12900
                               /\ 19100 <= z \div 100 /\ z \div 100 <= 19300
    <3>1. \A i \in 1..3 : LET n == Component(c[i], 51, 20)
                          IN  /\ n \in Int
                              /\ 6400 * i - 100 <= n \div 100 /\ n \div 100 <= 6400 * i + 100
      BY <1>2, ChannelRead
    <3> HIDE DEF c
    <3>2. PICK i, j, k \in 1..3 : i = 1 /\ j = 2 /\ k = 3
      OBVIOUS
    <3>3. /\ Component(c[i], 51, 20) \in Int
          /\ 6400 * i - 100 <= Component(c[i], 51, 20) \div 100
          /\ Component(c[i], 51, 20) \div 100 <= 6400 * i + 100
      BY <3>1
    <3>4. /\ Component(c[j], 51, 20) \in Int
          /\ 6400 * j - 100 <= Component(c[j], 51, 20) \div 100
          /\ Component(c[j], 51, 20) \div 100 <= 6400 * j + 100
      BY <3>1
    <3>5. /\ Component(c[k], 51, 20) \in Int
          /\ 6400 * k - 100 <= Component(c[k], 51, 20) \div 100
          /\ Component(c[k], 51, 20) \div 100 <= 6400 * k + 100
      BY <3>1
    <3> QED
      BY <3>2, <3>3, <3>4, <3>5
  <2>2. parsed = Converted(x, y, z, a, RgbToSRGB)
    BY <1>1, <1>2, <2>1, ParseCases
  <2> HIDE DEF parsed, c, half
  <2>3. NaN \notin {x, y, z, a}
    BY <1>1, <2>1 DEF NaN
  <2>4. parsed = Color(x \div 100, y \div 100, z \div 100, a)
    BY <2>2, <2>3 DEF Converted, RgbToSRGB
  <2>5. PICK r, g, b \in Int : /\ r = x \div 100 /\ g = y \div 100 /\ b = z \div 100
                               /\ 6300 <= r /\ r <= 6500 /\ 12700 <= g /\ g <= 12900
                               /\ 19100 <= b /\ b <= 19300
    BY <2>1
  <2>6. IsExpectedProbe(Color(r, g, b, a))
    BY <1>1, <2>5, NearExpected
  <2> QED
    BY <2>4, <2>5, <2>6 DEF parsed
<1>3. CASE /\ text.form = "srgb" /\ Len(c) = 3
           /\ \A i \in 1..3 : Says(c[i], "number", <<2510, 5020, 7529>>[i], 38)
  <2>1. PICK x, y, z \in Int : /\ x = NumberOf(c[1]) /\ 2472 <= x /\ x <= 2548
                               /\ y = NumberOf(c[2]) /\ 4982 <= y /\ y <= 5058
                               /\ z = NumberOf(c[3]) /\ 7491 <= z /\ z <= 7567
    <3>1. /\ Says(c[1], "number", 2510, 38) /\ Says(c[2], "number", 5020, 38)
          /\ Says(c[3], "number", 7529, 38)
      BY <1>3
    <3> HIDE DEF c
    <3>2. PICK x \in Int : x = NumberOf(c[1]) /\ 2472 <= x /\ x <= 2548
      BY <3>1, SaysBounds DEF NumberOf
    <3>3. PICK y \in Int : y = NumberOf(c[2]) /\ 4982 <= y /\ y <= 5058
      BY <3>1, SaysBounds DEF NumberOf
    <3>4. PICK z \in Int : z = NumberOf(c[3]) /\ 7491 <= z /\ z <= 7567
      BY <3>1, SaysBounds DEF NumberOf
    <3> QED
      BY <3>2, <3>3, <3>4
  <2>2. a = AlphaComponent(text.alpha)
    BY <1>1, <1>3 DEF RgbAlpha
  <2>3. parsed = Converted(x, y, z, a, UnitToSRGB)
    BY <1>3, <2>1, <2>2, ParseCases
  <2> HIDE DEF parsed, c, half
  <2>4. NaN \notin {x, y, z, a}
    BY <1>1, <2>1 DEF NaN
  <2>5. parsed = Color((x * 255) \div 100, (y * 255) \div 100, (z * 255) \div 100, a)
    BY <2>3, <2>4 DEF Converted, UnitToSRGB
  <2>6. PICK r, g, b \in Int : /\ r = (x * 255) \div 100 /\ g = (y * 255) \div 100
                               /\ b = (z * 255) \div 100
                               /\ 6300 <= r /\ r <= 6500 /\ 12700 <= g /\ g <= 12900
                               /\ 19100 <= b /\ b <= 19300
    BY <2>1
  <2>7. IsExpectedProbe(Color(r, g, b, a))
    BY <1>1, <2>6, NearExpected
  <2> QED
    BY <2>5, <2>6, <2>7 DEF parsed
<1>4. CASE /\ text.form = "oklab" /\ Len(c) = 3
           /\ Says(c[1], "number", 5872, 1) \/ Says(c[1], "percent", 587200, 100)
           /\ Says(c[2], "number", -395, 1) /\ Says(c[3], "number", -1119, 1)
  <2>1. PICK x, y, z \in Int : /\ x = Component(c[1], 1, 100) /\ 5871 <= x /\ x <= 5873
                               /\ y = Component(c[2], 1, 250) /\ -396 <= y /\ y <= -394
                               /\ z = Component(c[3], 1, 250) /\ -1120 <= z /\ z <= -1118
    <3>1. /\ Says(c[1], "number", 5872, 1) \/ Says(c[1], "percent", 587200, 100)
          /\ Says(c[2], "number", -395, 1) /\ Says(c[3], "number", -1119, 1)
      BY <1>4
    <3> HIDE DEF c
    <3>2. PICK x \in Int : x = Component(c[1], 1, 100) /\ 5871 <= x /\ x <= 5873
      <4>1. CASE Says(c[1], "number", 5872, 1)
        BY <4>1, SaysBounds DEF Component
      <4>2. CASE Says(c[1], "percent", 587200, 100)
        <5>1. c[1].kind = "percent" /\ c[1].n \in Int /\ 587100 <= c[1].n /\ c[1].n <= 587300
          BY <4>2, SaysBounds
        <5>2. Component(c[1], 1, 100) = (c[1].n * 1) \div 100
          BY <5>1 DEF Component
        <5> QED
          BY <5>1, <5>2
      <4> QED
        BY <3>1, <4>1, <4>2
    <3>3. PICK y \in Int : y = Component(c[2], 1, 250) /\ -396 <= y /\ y <= -394
      BY <3>1, SaysBounds DEF Component
    <3>4. PICK z \in Int : z = Component(c[3], 1, 250) /\ -1120 <= z /\ z <= -1118
      BY <3>1, SaysBounds DEF Component
    <3> QED
      BY <3>2, <3>3, <3>4
  <2>2. a = AlphaComponent(text.alpha)
    BY <1>1, <1>4 DEF RgbAlpha
  <2>3. parsed = Converted(x, y, z, a, OklabToSRGB)
    BY <1>4, <2>1, <2>2, ParseCases
  <2> HIDE DEF parsed, c, half
  <2>4. NaN \notin {x, y, z, a}
    BY <1>1, <2>1 DEF NaN
  <2>5. parsed = OklabToSRGB(x, y, z, a)
    BY <2>3, <2>4 DEF Converted
  <2>6. IsExpectedProbe(OklabToSRGB(x, y, z, a))
    BY <1>1, <2>1, OklabProbe
  <2> QED
    BY <2>5, <2>6 DEF parsed
<1> QED
  BY <1>2, <1>3, <1>4 DEF RendersMix

\* The rendered test tells the engines with color-mix() from those without it.
LEMMA ProbeTells == \A e \in Engines : e.mixes <=> IsExpectedProbe(ParseRenderedColor(e.probe))
<1> TAKE e \in Engines
<1>1. /\ e.mixes \in BOOLEAN
      /\ e.mixes => RendersMix(e.probe)
      /\ ~e.mixes => LeavesUnmixed(e.probe)
  BY EnginesAssumption
<1>2. CASE e.mixes
  BY <1>1, <1>2, MixedExpected
<1>3. CASE ~e.mixes
  BY <1>1, <1>3, UnmixedUnexpected
<1> QED
  BY <1>2, <1>3

\* Theorem.  In every engine that leaves a color-mix() unrendered, and in none that
\* renders it and tells the colour as rgb(), color(srgb) or oklab(),
\* activateCompatibility installs the style sheet of the fallback.
THEOREM FallbackCorrect == Spec => []FallbackExact
<1>1. CompatInvariant => FallbackExact
  BY ProbeTells DEF CompatInvariant, CompatType, InstalledOnce, FallbackExact, SupportsRenderedColorMix
<1> QED
  BY <1>1, CompatCorrect, PTL
-----------------------------------------------------------------------------
(* Division, linear light and its luminance, and what rounding does to them. *)

LEMMA DivAtLeast == \A x, k \in Nat, y \in Nat \ {0} : x \div y >= k <=> x >= k * y
OBVIOUS

LEMMA DivBelow == \A x, k \in Nat, y \in Nat \ {0} : x < k * y => x \div y \in Nat /\ x \div y < k
OBVIOUS

LEMMA ProductGrows == \A x, y, k \in Nat : x <= y => x * k \in Nat /\ x * k <= y * k
OBVIOUS

LEMMA ProductNear ==
    \A x, r, s \in Nat : s <= r + 50 => x * s \in Nat /\ x * r \in Nat /\ x * s <= x * r + 50 * x
OBVIOUS

\* the i-th stretch of the table, with the lights at its ends
Stretch(i, low, high) ==
    /\ i \in 1..85 /\ low \in Nat /\ high \in Nat
    /\ low = Linear[i] /\ high = Linear[i + 1]
    /\ low < high /\ high <= 100000
    /\ 100 * (high - low) + 600 <= 6 * (low + 5000)

\* a channel r hundredths into a stretch
Into(v, i, r, low, high) == Stretch(i, low, high) /\ r \in 0..299 /\ v = 300 * (i - 1) + r

\* A channel lies in one stretch, whose end belongs to the next.
LEMMA StretchOfChannel ==
    ASSUME NEW v \in Channel, v # 25500
    PROVE  \E i, r, low, high : Into(v, i, r, low, high)
<1>1. \A i \in 1..85 : 100 * (Linear[i + 1] - Linear[i]) + 600 <= 6 * (Linear[i] + 5000)
  BY SMTT(60) DEF Linear
<1>2. v \in Int /\ 0 <= v /\ v < 25500
  BY DEF Channel
<1>3. PICK i \in Int, r \in Int : i = v \div 300 + 1 /\ r = v % 300
  BY <1>2
<1>4. i \in 1..85 /\ r \in 0..299 /\ v = 300 * (i - 1) + r
  BY <1>2, <1>3
<1>5. PICK j \in 1..86 : j = i
  BY <1>4
<1>6. PICK k \in 1..86 : k = i + 1
  BY <1>4
<1>7. j = i /\ k = i + 1
  BY <1>5, <1>6
<1>8. PICK low, high \in Int : low = Linear[j] /\ high = Linear[k]
  BY LinearTable
<1>9. low < high
  BY <1>4, <1>7, <1>8, LinearTable
<1>10. 0 <= low /\ high <= 100000
  BY <1>8, LinearRange
<1>11. 100 * (high - low) + 600 <= 6 * (low + 5000)
  BY <1>1, <1>4, <1>7, <1>8
<1>12. Stretch(i, low, high)
  BY <1>4, <1>7, <1>8, <1>9, <1>10, <1>11 DEF Stretch
<1>13. Into(v, i, r, low, high)
  BY <1>4, <1>12 DEF Into
<1> QED
  BY <1>13

Climb(low, high, r) == low + ((high - low) * r) \div 300

\* Light on a stretch, its end included.
LEMMA LightOnStretch ==
    \A i, low, high : Stretch(i, low, high) =>
        \A r \in 0..300 : LinearOf(300 * (i - 1) + r) = Climb(low, high, r)
<1> SUFFICES ASSUME NEW i, NEW low, NEW high, Stretch(i, low, high), NEW r \in 0..300
             PROVE  LinearOf(300 * (i - 1) + r) = Climb(low, high, r)
  OBVIOUS
<1>0. /\ i \in 1..85 /\ low \in Nat /\ high \in Nat /\ low < high
      /\ low = Linear[i] /\ high = Linear[i + 1]
  BY DEF Stretch
<1>5. PICK v \in Int : v = 300 * (i - 1) + r
  BY <1>0
<1> SUFFICES LinearOf(v) = Climb(low, high, r)
  BY <1>5
<1>1. CASE r = 0
  <2>1. v \div 300 + 1 = i /\ v % 300 = 0
    BY <1>0, <1>1, <1>5
  <2>2. LinearOf(v) = low
    BY <1>0, <2>1 DEF LinearOf
  <2>3. ((high - low) * r) \div 300 = 0
    BY <1>0, <1>1
  <2> QED
    BY <1>0, <1>5, <2>2, <2>3 DEF Climb
<1>2. CASE r = 300
  <2>1. v \div 300 + 1 = i + 1 /\ v % 300 = 0
    BY <1>0, <1>2, <1>5
  <2>2. LinearOf(v) = high
    BY <1>0, <2>1 DEF LinearOf
  <2>3. ((high - low) * r) \div 300 = high - low
    BY <1>0, <1>2
  <2> QED
    BY <1>0, <1>5, <2>2, <2>3 DEF Climb
<1>3. CASE r # 0 /\ r # 300
  <2>1. v \div 300 + 1 = i /\ v % 300 = r
    BY <1>0, <1>3, <1>5
  <2> QED
    BY <1>0, <1>3, <1>5, <2>1 DEF LinearOf, Climb
<1> QED
  BY <1>1, <1>2, <1>3

\* Light grows with the channel, from 0 to 100000: below and above a place of the table.
LEMMA LightRange ==
    \A v \in Channel, k \in 1..86 :
        /\ LinearOf(v) \in Nat /\ LinearOf(v) <= 100000
        /\ v <= 300 * (k - 1) => LinearOf(v) <= Linear[k]
        /\ v >= 300 * (k - 1) => LinearOf(v) >= Linear[k]
<1> TAKE v \in Channel, k \in 1..86
<1>1. PICK m \in Int : m = Linear[k] /\ 0 <= m /\ m <= 100000
  BY LinearTable, LinearRange
<1>2. v \in Int /\ 0 <= v /\ v <= 25500
  BY DEF Channel
<1>3. CASE v = 25500
  <2>1. LinearOf(v) = Linear[86]
    BY <1>3 DEF LinearOf
  <2>2. Linear[86] = 100000
    BY SMTT(60) DEF Linear
  <2>3. v <= 300 * (k - 1) => k = 86
    BY <1>3
  <2> QED
    BY <1>1, <2>1, <2>2, <2>3
<1>4. CASE v # 25500
  <2>1. PICK i, r, low, high : Into(v, i, r, low, high)
    BY <1>4, StretchOfChannel
  <2>2. /\ i \in 1..85 /\ r \in 0..299 /\ r \in 0..300 /\ low \in Nat /\ high \in Nat
        /\ v = 300 * (i - 1) + r /\ low < high /\ high <= 100000
    BY <2>1 DEF Into, Stretch
  <2>3. Stretch(i, low, high)
    BY <2>1 DEF Into
  <2>4. LinearOf(v) = Climb(low, high, r)
    <3>1. PICK x \in Int, n \in 0..300 : x = 300 * (i - 1) + n /\ n = r /\ x = v
      BY <2>2
    <3>2. LinearOf(300 * (i - 1) + n) = Climb(low, high, n)
      BY <2>3, LightOnStretch
    <3> QED
      BY <3>1, <3>2
  <2>5. PICK d \in Nat : d = high - low
    BY <2>2
  <2>6. d * r \in Nat /\ d * r <= d * 300
    BY <2>2
  <2>7. PICK p \in Nat : p = d * r /\ p <= d * 300
    BY <2>6
  <2>8. PICK q \in Nat : q = p \div 300 /\ q <= d
    BY <2>7
  <2>9. LinearOf(v) = low + q /\ low + q <= high
    BY <2>2, <2>4, <2>5, <2>7, <2>8 DEF Climb
  <2>10. PICK j, h \in 1..86 : j = i /\ h = i + 1
    <3>1. i \in 1..85
      BY <2>2
    <3>2. i \in 1..86 /\ i + 1 \in 1..86
      BY <3>1
    <3> QED
      BY <3>2
  <2>11. Linear[j] = low /\ Linear[h] = high
    BY <2>3, <2>10 DEF Stretch
  <2>12. ASSUME v <= 300 * (k - 1)
         PROVE  low + q <= m
    <3>1. CASE k > i
      <4>1. h <= k
        BY <2>2, <2>10, <3>1
      <4>2. Linear[h] <= Linear[k]
        BY <4>1, LinearGrows
      <4> QED
        BY <1>1, <2>2, <2>9, <2>11, <4>2
    <3>2. CASE k = i
      <4>1. r = 0
        BY <2>2, <2>12, <3>2
      <4>2. p = 0
        BY <2>5, <2>7, <4>1
      <4>3. q = 0
        BY <2>8, <4>2
      <4>4. m = low
        BY <1>1, <2>10, <2>11, <3>2
      <4> QED
        BY <2>2, <4>3, <4>4
    <3>3. CASE k < i
      BY <2>2, <2>12, <3>3
    <3> QED
      BY <2>2, <3>1, <3>2, <3>3
  <2>13. ASSUME v >= 300 * (k - 1)
         PROVE  low + q >= m
    <3>1. k <= j
      BY <2>2, <2>10, <2>13
    <3>2. Linear[k] <= Linear[j]
      BY <3>1, LinearGrows
    <3> QED
      BY <1>1, <2>2, <2>8, <2>11, <3>2
  <2> QED
    BY <1>1, <2>2, <2>8, <2>9, <2>12, <2>13
<1> QED
  BY <1>3, <1>4

Eighth(v) == 100 * ((v + 50) \div 100)

\* Rounding to 8 bits changes the light by less than a hundredth of what contrast
\* is reckoned with.
LEMMA LightRounded ==
    ASSUME NEW v \in Channel
    PROVE  /\ Eighth(v) \in Channel
           /\ 100 * LinearOf(Eighth(v)) <= 101 * LinearOf(v) + 5000
           /\ 99 * LinearOf(v) <= 100 * LinearOf(Eighth(v)) + 5000
<1>1. v \in Int /\ 0 <= v /\ v <= 25500
  BY DEF Channel
<1>2. CASE v = 25500
  <2>1. Eighth(v) = v
    BY <1>2 DEF Eighth
  <2>2. PICK l \in Nat : l = LinearOf(v)
    <3>1. PICK k \in 1..86 : k = 1
      OBVIOUS
    <3> QED
      BY LightRange
  <2> QED
    BY <2>1, <2>2
<1>3. CASE v # 25500
  <2>1. PICK i, r, low, high : Into(v, i, r, low, high)
    BY <1>3, StretchOfChannel
  <2>2. /\ i \in 1..85 /\ r \in 0..299 /\ r \in 0..300 /\ low \in Nat /\ high \in Nat
        /\ v = 300 * (i - 1) + r /\ low < high /\ high <= 100000
        /\ 100 * (high - low) + 600 <= 6 * (low + 5000)
    BY <2>1 DEF Into, Stretch
  <2>3. Stretch(i, low, high)
    BY <2>1 DEF Into
  <2>4. PICK s \in 0..300 : s = 100 * ((r + 50) \div 100) /\ s <= r + 50 /\ r <= s + 50
    BY <2>2
  <2>5. PICK w \in Int : w = 300 * (i - 1) + s /\ w = Eighth(v)
    BY <2>2, <2>4 DEF Eighth
  <2>6. w \in Channel
    BY <2>2, <2>5 DEF Channel
  <2>7. LinearOf(v) = Climb(low, high, r)
    <3>1. PICK x \in Int, n \in 0..300 : x = 300 * (i - 1) + n /\ n = r /\ x = v
      BY <2>2
    <3>2. LinearOf(300 * (i - 1) + n) = Climb(low, high, n)
      BY <2>3, LightOnStretch
    <3> QED
      BY <3>1, <3>2
  <2>8. LinearOf(w) = Climb(low, high, s)
    BY <2>3, <2>5, LightOnStretch
  <2>9. PICK d \in Nat : d = high - low
    BY <2>2
  <2>10. r \in Nat /\ s \in Nat
    BY <2>2
  <2>11. d * s \in Nat /\ d * r \in Nat /\ d * s <= d * r + 50 * d
    BY <2>4, <2>10, ProductNear
  <2>12. d * r <= d * s + 50 * d
    BY <2>4, <2>10, ProductNear
  <2>13. PICK p, t \in Nat : p = d * r /\ t = d * s /\ t <= p + 50 * d /\ p <= t + 50 * d
    BY <2>11, <2>12
  <2>14. PICK q, u \in Nat : q = p \div 300 /\ u = t \div 300 /\ 6 * u <= 6 * q + d + 6 /\ 6 * q <= 6 * u + d + 6
    BY <2>13
  <2>15. LinearOf(v) = low + q /\ LinearOf(w) = low + u
    BY <2>7, <2>8, <2>9, <2>13, <2>14 DEF Climb
  <2>16. 100 * d + 600 <= 6 * (low + 5000)
    BY <2>2, <2>9
  <2>17. 100 * (low + u) <= 101 * (low + q) + 5000 /\ 99 * (low + q) <= 100 * (low + u) + 5000
    BY <2>2, <2>14, <2>16
  <2> QED
    BY <2>5, <2>6, <2>15, <2>17
<1> QED
  BY <1>2, <1>3

LEMMA ShadeFields ==
    \A c \in Shades : /\ c.red \in Channel /\ c.green \in Channel /\ c.blue \in Channel
                      /\ c.alpha = 100
BY DEF Shades

LEMMA OpaqueShade == \A r, g, b \in Channel : Opaque(r, g, b) \in Shades
BY DEF Opaque, Shades

LEMMA RoundedShade ==
    ASSUME NEW c \in Shades
    PROVE  /\ Rounded(c) = Opaque(Eighth(c.red), Eighth(c.green), Eighth(c.blue))
           /\ Rounded(c) \in Shades
<1>1. Rounded(c) = Opaque(Eighth(c.red), Eighth(c.green), Eighth(c.blue))
  BY DEF Rounded, Eighth
<1>2. Eighth(c.red) \in Channel /\ Eighth(c.green) \in Channel /\ Eighth(c.blue) \in Channel
  BY ShadeFields, LightRounded
<1> QED
  BY <1>1, <1>2, OpaqueShade

LEMMA LightNat == \A v \in Channel : LinearOf(v) \in Nat /\ LinearOf(v) <= 100000
<1> TAKE v \in Channel
<1>1. PICK k \in 1..86 : k = 1
  OBVIOUS
<1> QED
  BY LightRange

LEMMA LuminanceRange == \A c \in Shades : Luminance(c) \in Nat /\ Luminance(c) <= 100000
<1> TAKE c \in Shades
<1>1. PICK r, g, b \in Nat : /\ r = LinearOf(c.red) /\ g = LinearOf(c.green) /\ b = LinearOf(c.blue)
                             /\ r <= 100000 /\ g <= 100000 /\ b <= 100000
  BY ShadeFields, LightNat
<1>2. PICK n \in Nat : n = 2126 * r + 7152 * g + 722 * b /\ n <= 1000000000
  BY <1>1
<1>3. Luminance(c) = n \div 10000
  BY <1>1, <1>2 DEF Luminance
<1> QED
  BY <1>2, <1>3

LEMMA LuminanceRounded ==
    ASSUME NEW c \in Shades
    PROVE  /\ 100 * Luminance(Rounded(c)) <= 101 * Luminance(c) + 5200
           /\ 99 * Luminance(c) <= 100 * Luminance(Rounded(c)) + 5200
<1> DEFINE d == Rounded(c)
<1>1. d = Opaque(Eighth(c.red), Eighth(c.green), Eighth(c.blue)) /\ d \in Shades
  BY RoundedShade
<1>2. d.red = Eighth(c.red) /\ d.green = Eighth(c.green) /\ d.blue = Eighth(c.blue)
  BY <1>1 DEF Opaque
<1> HIDE DEF d
<1>3. PICK r, g, b \in Nat : /\ r = LinearOf(c.red) /\ g = LinearOf(c.green) /\ b = LinearOf(c.blue)
                             /\ r <= 100000 /\ g <= 100000 /\ b <= 100000
  BY ShadeFields, LightNat
<1>4. PICK rr, gg, bb \in Nat : /\ rr = LinearOf(d.red) /\ gg = LinearOf(d.green) /\ bb = LinearOf(d.blue)
                                /\ rr <= 100000 /\ gg <= 100000 /\ bb <= 100000
  BY <1>1, ShadeFields, LightNat
<1>5. /\ 100 * rr <= 101 * r + 5000 /\ 99 * r <= 100 * rr + 5000
      /\ 100 * gg <= 101 * g + 5000 /\ 99 * g <= 100 * gg + 5000
      /\ 100 * bb <= 101 * b + 5000 /\ 99 * b <= 100 * bb + 5000
  BY <1>2, <1>3, <1>4, ShadeFields, LightRounded
<1>6. PICK n, m \in Nat : /\ n = 2126 * r + 7152 * g + 722 * b
                          /\ m = 2126 * rr + 7152 * gg + 722 * bb
  OBVIOUS
<1>7. 100 * m <= 101 * n + 50000000 /\ 99 * n <= 100 * m + 50000000
  BY <1>5, <1>6
<1>8. Luminance(c) = n \div 10000 /\ Luminance(d) = m \div 10000
  BY <1>3, <1>4, <1>6 DEF Luminance
<1>9. PICK x, y \in Nat : /\ x = n \div 10000 /\ y = m \div 10000
                          /\ 100 * y <= 101 * x + 5200 /\ 99 * x <= 100 * y + 5200
  BY <1>7
<1> QED
  BY <1>8, <1>9 DEF d
-----------------------------------------------------------------------------
(* Contrast, and what readableColor returns.                                *)

Mix(f, b, s) == (f * s + b * (100 - s)) \div 100

LEMMA MixRange == \A f, b \in Channel : \A s \in 0..100 : Mix(f, b, s) \in Channel
<1> TAKE f, b \in Channel
<1> TAKE s \in 0..100
<1>1. f \in Int /\ 0 <= f /\ f <= 25500 /\ b \in Int /\ 0 <= b /\ b <= 25500
  BY DEF Channel
<1>2. PICK t \in Nat : t = 100 - s
  OBVIOUS
<1>3. f * s \in Nat /\ f * s <= 25500 * s
  BY <1>1
<1>4. b * t \in Nat /\ b * t <= 25500 * t
  BY <1>1, <1>2
<1>5. PICK n \in Nat : n = f * s + b * (100 - s) /\ n <= 2550000
  BY <1>2, <1>3, <1>4
<1>6. n \div 100 \in Int /\ 0 <= n \div 100 /\ n \div 100 <= 25500
  BY <1>5
<1> QED
  BY <1>5, <1>6 DEF Channel, Mix

LEMMA BlendShade ==
    ASSUME NEW f \in Shades, NEW b \in Shades, NEW s \in 0..100
    PROVE  /\ Blend(f, b, s) \in Shades
           /\ Blend(f, b, s) = Opaque(Mix(f.red, b.red, s), Mix(f.green, b.green, s), Mix(f.blue, b.blue, s))
<1>1. Blend(f, b, s) = Opaque(Mix(f.red, b.red, s), Mix(f.green, b.green, s), Mix(f.blue, b.blue, s))
  BY DEF Blend, Mix
<1>2. /\ Mix(f.red, b.red, s) \in Channel /\ Mix(f.green, b.green, s) \in Channel
      /\ Mix(f.blue, b.blue, s) \in Channel
  <2>1. /\ f.red \in Channel /\ f.green \in Channel /\ f.blue \in Channel
        /\ b.red \in Channel /\ b.green \in Channel /\ b.blue \in Channel
    BY ShadeFields
  <2> QED
    BY <2>1, MixRange
<1> QED
  BY <1>1, <1>2, OpaqueShade

LEMMA WhiteAndBlack ==
    /\ White \in Shades /\ Luminance(White) = 100000
    /\ Black \in Shades /\ Luminance(Black) = 0
<1>1. White \in Shades /\ Black \in Shades
  <2>1. PICK m, n \in Channel : m = 25500 /\ n = 0
    BY DEF Channel
  <2> QED
    BY <2>1, OpaqueShade DEF White, Black
<1>2. Linear[1] = 0 /\ Linear[86] = 100000
  BY SMTT(60) DEF Linear
<1>3. LinearOf(0) = 0 /\ LinearOf(25500) = 100000
  BY <1>2 DEF LinearOf
<1>4. Luminance(White) = 100000
  BY <1>3 DEF Luminance, White, Opaque
<1>5. Luminance(Black) = 0
  BY <1>3 DEF Luminance, Black, Opaque
<1> QED
  BY <1>1, <1>4, <1>5

\* Contrast without its division.
LEMMA ContrastAtLeast ==
    ASSUME NEW c \in Shades, NEW d \in Shades, NEW k \in Nat, k >= 100
    PROVE  /\ Contrast(c, d) \in Nat
           /\ Contrast(c, d) >= k <=>
                \/ 100 * (Luminance(c) + 5000) >= k * (Luminance(d) + 5000)
                \/ 100 * (Luminance(d) + 5000) >= k * (Luminance(c) + 5000)
<1>1. PICK a, b \in Nat : a = Luminance(c) /\ b = Luminance(d)
  BY LuminanceRange
<1>2. PICK high, low \in Nat : /\ high = Max({a, b}) /\ low = Min({a, b})
                               /\ \/ high = a /\ low = b /\ b <= a
                                  \/ high = b /\ low = a /\ a <= b
  BY MinOfTwo, MaxOfTwo
<1>3. PICK x \in Nat, y \in Nat \ {0} : x = (high + 5000) * 100 /\ y = low + 5000
  OBVIOUS
<1>4. Contrast(c, d) = x \div y
  BY <1>1, <1>2, <1>3 DEF Contrast
<1>5. x \div y \in Nat /\ (x \div y >= k <=> x >= k * y)
  <2>1. x \div y \in Nat
    OBVIOUS
  <2> QED
    BY <2>1, DivAtLeast
<1>6. PICK p, q \in Nat : p = a + 5000 /\ q = b + 5000
  OBVIOUS
<1>7. p * k \in Nat /\ q * k \in Nat /\ 100 * p <= p * k /\ 100 * q <= q * k
  OBVIOUS
<1>8. x >= k * y <=> 100 * p >= k * q \/ 100 * q >= k * p
  <2>1. CASE high = a /\ low = b /\ b <= a
    <3>1. x = 100 * p /\ y = q /\ q <= p
      BY <1>3, <1>6, <2>1
    <3>2. 100 * q >= k * p => p = q
      BY <1>7, <3>1
    <3> QED
      BY <1>7, <3>1, <3>2
  <2>2. CASE high = b /\ low = a /\ a <= b
    <3>1. x = 100 * q /\ y = p /\ p <= q
      BY <1>3, <1>6, <2>2
    <3>2. 100 * p >= k * q => p = q
      BY <1>7, <3>1
    <3> QED
      BY <1>7, <3>1, <3>2
  <2> QED
    BY <1>2, <2>1, <2>2
<1> QED
  BY <1>1, <1>4, <1>5, <1>6, <1>8

\* the values of contrast that matter
LEMMA ContrastValues ==
    \A c, d \in Shades :
        LET a == Luminance(c)
            b == Luminance(d)
        IN  /\ Contrast(c, d) \in Nat
            /\ Contrast(c, d) >= 470 <=>
                 100 * (a + 5000) >= 470 * (b + 5000) \/ 100 * (b + 5000) >= 470 * (a + 5000)
            /\ Contrast(c, d) >= 455 <=>
                 100 * (a + 5000) >= 455 * (b + 5000) \/ 100 * (b + 5000) >= 455 * (a + 5000)
            /\ Contrast(c, d) >= 450 <=>
                 100 * (a + 5000) >= 450 * (b + 5000) \/ 100 * (b + 5000) >= 450 * (a + 5000)
BY ContrastAtLeast

\* Rounding a text and its surface keeps it readable.
LEMMA RoundedContrast ==
    ASSUME NEW c \in Shades, NEW b \in Shades, Contrast(c, b) >= 470
    PROVE  Rounded(c) \in Shades /\ Rounded(b) \in Shades /\ Contrast(Rounded(c), Rounded(b)) >= 450
<1>1. PICK x, y, u, v \in Nat : /\ x = Luminance(c) /\ y = Luminance(b)
                                /\ u = Luminance(Rounded(c)) /\ v = Luminance(Rounded(b))
  BY LuminanceRange, RoundedShade
<1>2. 100 * (x + 5000) >= 470 * (y + 5000) \/ 100 * (y + 5000) >= 470 * (x + 5000)
  BY <1>1, ContrastValues
<1>3. /\ 100 * u <= 101 * x + 5200 /\ 99 * x <= 100 * u + 5200
      /\ 100 * v <= 101 * y + 5200 /\ 99 * y <= 100 * v + 5200
  BY <1>1, LuminanceRounded
<1>4. 100 * (u + 5000) >= 450 * (v + 5000) \/ 100 * (v + 5000) >= 450 * (u + 5000)
  BY <1>2, <1>3
<1>5. Rounded(c) \in Shades /\ Rounded(b) \in Shades
  BY RoundedShade
<1> QED
  BY <1>1, <1>4, <1>5, ContrastValues

\* White and black are rounded as they are.
LEMMA TargetContrast ==
    ASSUME NEW c \in {White, Black}, NEW b \in Shades, Contrast(c, b) >= 455
    PROVE  c \in Shades /\ Contrast(c, Rounded(b)) >= 450
<1>1. PICK x, y, v \in Nat : x = Luminance(c) /\ y = Luminance(b) /\ v = Luminance(Rounded(b)) /\ x \in {0, 100000}
                             /\ y <= 100000
  BY LuminanceRange, RoundedShade, WhiteAndBlack
<1>2. c \in Shades /\ Rounded(b) \in Shades
  BY RoundedShade, WhiteAndBlack
<1>3. 100 * (x + 5000) >= 455 * (y + 5000) \/ 100 * (y + 5000) >= 455 * (x + 5000)
  BY <1>1, <1>2, ContrastValues
<1>4. 100 * v <= 101 * y + 5200 /\ 99 * y <= 100 * v + 5200
  BY <1>1, LuminanceRounded
<1>5. 100 * (x + 5000) >= 450 * (v + 5000) \/ 100 * (v + 5000) >= 450 * (x + 5000)
  BY <1>1, <1>3, <1>4
<1> QED
  BY <1>1, <1>2, <1>5, ContrastValues

LEMMA LeastStep ==
    ASSUME NEW S \in SUBSET (0..20), S # {}
    PROVE  Min(S) \in S
<1> DEFINE Less == OpToRel(<, Nat)
<1>1. IsWellFoundedOn(Less, Nat)
  BY NatLessThanWellFounded
<1>2. \A n, m \in S : <<n, m>> \notin Less => m <= n
  BY DEF OpToRel
<1> HIDE DEF Less
<1>3. \E m \in S : \A n \in S : <<n, m>> \notin Less
  <2>1. S \subseteq Nat
    OBVIOUS
  <2> QED
    BY <1>1, <2>1, WFMin
<1> QED
  BY <1>2, <1>3 DEF Min

LEMMA MinOfThree ==
    \A a, b, c \in Int :
        LET m == Min({a, b, c})
        IN  m \in {a, b, c} /\ m <= a /\ m <= b /\ m <= c
<1> TAKE a, b, c \in Int
<1>1. \E m \in {a, b, c} : \A n \in {a, b, c} : m <= n
  <2>1. CASE a <= b /\ a <= c
    BY <2>1
  <2>2. CASE b <= a /\ b <= c
    BY <2>2
  <2>3. CASE c <= a /\ c <= b
    BY <2>3
  <2> QED
    BY <2>1, <2>2, <2>3
<1> QED
  BY <1>1 DEF Min

LEMMA MinimumOfThree ==
    ASSUME NEW c \in Shades, NEW p \in Shades, NEW q \in Shades, NEW r \in Shades
    PROVE  LET m == MinimumContrast(c, {p, q, r})
           IN  /\ m \in Nat
               /\ m \in {Contrast(c, p), Contrast(c, q), Contrast(c, r)}
               /\ m <= Contrast(c, p) /\ m <= Contrast(c, q) /\ m <= Contrast(c, r)
<1>1. {Contrast(c, b) : b \in {p, q, r}} = {Contrast(c, p), Contrast(c, q), Contrast(c, r)}
  OBVIOUS
<1>2. Contrast(c, p) \in Nat /\ Contrast(c, q) \in Nat /\ Contrast(c, r) \in Nat
  BY ContrastValues
<1>3. MinimumContrast(c, {p, q, r}) = Min({Contrast(c, p), Contrast(c, q), Contrast(c, r)})
  BY <1>1 DEF MinimumContrast
<1>4. PICK x, y, z \in Int : x = Contrast(c, p) /\ y = Contrast(c, q) /\ z = Contrast(c, r)
  BY <1>2
<1>5. MinimumContrast(c, {p, q, r}) = Min({x, y, z})
  BY <1>3, <1>4
<1>6. /\ Min({x, y, z}) \in {x, y, z}
      /\ Min({x, y, z}) <= x /\ Min({x, y, z}) <= y /\ Min({x, y, z}) <= z
  BY MinOfThree
<1>7. PICK m \in Int : /\ m = MinimumContrast(c, {p, q, r}) /\ m \in {x, y, z}
                      /\ m <= x /\ m <= y /\ m <= z
  BY <1>5, <1>6
<1>8. m \in Nat
  BY <1>2, <1>4, <1>7
<1> QED
  BY <1>4, <1>7, <1>8

\* Surfaces among which one text colour can be read: one, or all dark, or all light.
Agreeing(p, q, r) ==
    \/ p = q /\ q = r
    \/ Luminance(p) <= 17340 /\ Luminance(q) <= 17340 /\ Luminance(r) <= 17340
    \/ Luminance(p) >= 18500 /\ Luminance(q) >= 18500 /\ Luminance(r) >= 18500

\* White or black, whichever is chosen, can be read on all of them.
LEMMA TargetReadable ==
    ASSUME NEW p \in Shades, NEW q \in Shades, NEW r \in Shades, Agreeing(p, q, r)
    PROVE  LET seen == {p, q, r}
               target == IF MinimumContrast(White, seen) >= MinimumContrast(Black, seen)
                         THEN White ELSE Black
           IN  \A b \in seen : Contrast(target, b) >= 455
<1> DEFINE seen == {p, q, r}
           white == MinimumContrast(White, seen)
           black == MinimumContrast(Black, seen)
<1>1. /\ white \in Nat /\ white \in {Contrast(White, p), Contrast(White, q), Contrast(White, r)}
      /\ black \in Nat /\ black \in {Contrast(Black, p), Contrast(Black, q), Contrast(Black, r)}
      /\ \A b \in seen : white <= Contrast(White, b) /\ black <= Contrast(Black, b)
  BY MinimumOfThree, WhiteAndBlack
<1>2. \A b \in seen : /\ Contrast(White, b) \in Nat /\ Contrast(Black, b) \in Nat
                      /\ Luminance(b) <= 17340 => Contrast(White, b) >= 470 /\ Contrast(Black, b) < 470
                      /\ Luminance(b) >= 18500 => Contrast(Black, b) >= 470 /\ Contrast(White, b) < 470
                      /\ Contrast(White, b) >= 455 \/ Contrast(Black, b) >= 455
                      /\ Contrast(White, b) < 455 => Luminance(b) >= 18000
                      /\ Contrast(Black, b) < 455 => Luminance(b) <= 17800
  <2> TAKE b \in seen
  <2>1. PICK x \in Nat : x = Luminance(b) /\ x <= 100000
    BY LuminanceRange
  <2>2. /\ Contrast(White, b) \in Nat
        /\ Contrast(White, b) >= 470 <=> 100 * 105000 >= 470 * (x + 5000)
        /\ Contrast(White, b) >= 455 <=> 100 * 105000 >= 455 * (x + 5000)
    BY <2>1, WhiteAndBlack, ContrastValues
  <2>3. /\ Contrast(Black, b) \in Nat
        /\ Contrast(Black, b) >= 470 <=> 100 * (x + 5000) >= 470 * 5000
        /\ Contrast(Black, b) >= 455 <=> 100 * (x + 5000) >= 455 * 5000
    BY <2>1, WhiteAndBlack, ContrastValues
  <2> QED
    BY <2>1, <2>2, <2>3
<1>3. CASE p = q /\ q = r
  <2>1. white = Contrast(White, p) /\ black = Contrast(Black, p)
    BY <1>1, <1>3
  <2>2. Contrast(White, p) \in Nat /\ Contrast(Black, p) \in Nat
    BY <1>2
  <2>3. Contrast(White, p) >= 455 \/ Contrast(Black, p) >= 455
    BY <1>2
  <2>4. CASE white >= black
    BY <1>3, <2>1, <2>2, <2>3, <2>4
  <2>5. CASE ~(white >= black)
    BY <1>3, <2>1, <2>2, <2>3, <2>5
  <2> QED
    BY <2>4, <2>5
<1>4. CASE Luminance(p) <= 17340 /\ Luminance(q) <= 17340 /\ Luminance(r) <= 17340
  <2>1. \A b \in seen : Contrast(White, b) \in Nat /\ Contrast(White, b) >= 470 /\ Contrast(Black, b) < 470
    BY <1>2, <1>4
  <2>2. white >= 470 /\ black < 470
    BY <1>1, <2>1
  <2>3. white >= black
    BY <1>1, <2>2
  <2> QED
    BY <2>1, <2>3
<1>5. CASE Luminance(p) >= 18500 /\ Luminance(q) >= 18500 /\ Luminance(r) >= 18500
  <2>1. \A b \in seen : Contrast(Black, b) \in Nat /\ Contrast(Black, b) >= 470 /\ Contrast(White, b) < 470
    BY <1>2, <1>5
  <2>2. black >= 470 /\ white < 470
    BY <1>1, <2>1
  <2>3. ~(white >= black)
    BY <1>1, <2>2
  <2> QED
    BY <2>1, <2>3
<1> QED
  BY <1>3, <1>4, <1>5 DEF Agreeing

\* readableColor, once its start and its surfaces are known
ReadableFrom(start, seen) ==
    LET target == IF MinimumContrast(White, seen) >= MinimumContrast(Black, seen)
                  THEN White ELSE Black
        readable == {step \in 0..20 : MinimumContrast(Blend(target, start, 5 * step), seen) >= 470}
    IN  IF readable = {} THEN target ELSE Rounded(Blend(target, start, 5 * Min(readable)))

LEMMA ReadableStarts ==
    ASSUME NEW desired, NEW backgrounds, NEW alpha
    PROVE  ReadableColor(desired, backgrounds, alpha) =
             ReadableFrom(Blend(desired, backgrounds[1], (alpha * desired.alpha) \div 100),
                          {backgrounds[i] : i \in DOMAIN backgrounds})
BY DEF ReadableColor, ReadableFrom

Readable(text, surface) == text.alpha = 100 /\ Contrast(text, surface) >= 450

\* the surfaces a text may stand on, of which the first is blended with
Standing(backgrounds, p, q, r) ==
    backgrounds[1] = p /\ {backgrounds[i] : i \in DOMAIN backgrounds} = {p, q, r}

\* readableColor: the text as emitted can be read on every surface as emitted.
LEMMA ReadableOnAll ==
    ASSUME NEW desired \in Shades, NEW backgrounds, NEW alpha \in 0..100,
           NEW p \in Shades, NEW q \in Shades, NEW r \in Shades,
           Standing(backgrounds, p, q, r), Agreeing(p, q, r)
    PROVE  LET c == ReadableColor(desired, backgrounds, alpha)
           IN  Readable(c, Rounded(p)) /\ Readable(c, Rounded(q)) /\ Readable(c, Rounded(r))
<1> DEFINE start == Blend(desired, p, (alpha * desired.alpha) \div 100)
           seen == {p, q, r}
           target == IF MinimumContrast(White, seen) >= MinimumContrast(Black, seen)
                     THEN White ELSE Black
           at(step) == Blend(target, start, 5 * step)
           readable == {step \in 0..20 : MinimumContrast(at(step), seen) >= 470}
           c == IF readable = {} THEN target ELSE Rounded(at(Min(readable)))
<1>1. ReadableColor(desired, backgrounds, alpha) = c
  <2>1. ReadableColor(desired, backgrounds, alpha) = ReadableFrom(start, seen)
    BY ReadableStarts DEF Standing
  <2> HIDE DEF start, seen
  <2>2. ReadableFrom(start, seen) = c
    BY DEF ReadableFrom
  <2> QED
    BY <2>1, <2>2
<1>2. start \in Shades
  <2>1. desired.alpha = 100
    BY ShadeFields
  <2>2. PICK s \in 0..100 : s = (alpha * desired.alpha) \div 100
    BY <2>1
  <2> QED
    BY <2>2, BlendShade
<1>3. target \in {White, Black} /\ target \in Shades
  BY WhiteAndBlack
<1>4. \A b \in seen : Contrast(target, b) >= 455
  BY TargetReadable
<1> HIDE DEF start, target
<1>5. CASE readable = {}
  <2>1. \A b \in seen : Contrast(target, Rounded(b)) >= 450
    BY <1>3, <1>4, TargetContrast
  <2>2. target.alpha = 100 /\ ReadableColor(desired, backgrounds, alpha) = target
    BY <1>1, <1>3, <1>5, ShadeFields
  <2> QED
    BY <2>1, <2>2 DEF Readable
<1>6. CASE readable # {}
  <2>1. PICK step \in readable : step = Min(readable)
    BY <1>6, LeastStep
  <2>2. step \in 0..20 /\ MinimumContrast(at(step), seen) >= 470
    BY <2>1
  <2>3. at(step) \in Shades
    <3>1. PICK s \in 0..100 : s = 5 * step
      BY <2>2
    <3> QED
      BY <1>2, <1>3, <3>1, BlendShade
  <2>4. c = Rounded(at(step))
    BY <1>6, <2>1
  <2> HIDE DEF at, readable, c
  <2>5. \A b \in seen : Contrast(at(step), b) >= 470
    <3>1. /\ MinimumContrast(at(step), seen) \in Nat
          /\ MinimumContrast(at(step), seen) <= Contrast(at(step), p)
          /\ MinimumContrast(at(step), seen) <= Contrast(at(step), q)
          /\ MinimumContrast(at(step), seen) <= Contrast(at(step), r)
      BY <2>3, MinimumOfThree
    <3>2. \A b \in seen : Contrast(at(step), b) \in Nat
      BY <2>3, ContrastValues
    <3> QED
      BY <2>2, <3>1, <3>2
  <2>6. \A b \in seen : Contrast(Rounded(at(step)), Rounded(b)) >= 450
    BY <2>3, <2>5, RoundedContrast
  <2>7. Rounded(at(step)) \in Shades
    BY <2>3, RoundedShade
  <2>8. /\ Rounded(at(step)).alpha = 100
        /\ ReadableColor(desired, backgrounds, alpha) = Rounded(at(step))
    BY <1>1, <2>4, <2>7, ShadeFields
  <2> QED
    BY <2>6, <2>8 DEF Readable
<1> QED
  BY <1>5, <1>6
-----------------------------------------------------------------------------
(* The colours that are told in CSS text.                                   *)

LEMMA EncodedRange == \A v \in Int : EncodedSRGB(v) \in Channel
<1> TAKE v \in Int
<1>1. PICK x \in Int : x = Clamp(v, 0, 100000) /\ 0 <= x /\ x <= 100000
  BY ClampRange
<1>2. Clamp(x, 0, 100000) = x
  BY <1>1, ClampKept
<1> DEFINE Place(w, m) == IF m = 86 THEN 25500
                          ELSE 300 * (m - 1) + (300 * (w - Linear[m])) \div (Linear[m + 1] - Linear[m])
           Fitting(w) == CHOOSE k \in 1..86 : Linear[k] <= w /\ (k = 86 \/ w < Linear[k + 1])
           Found(w) == Place(w, Fitting(w))
<1>3. EncodedSRGB(v) = EncodedSRGB(x) /\ EncodedSRGB(x) = Place(x, Fitting(x))
  <2>1. EncodedSRGB(v) = Found(Clamp(v, 0, 100000)) /\ EncodedSRGB(x) = Found(Clamp(x, 0, 100000))
    BY DEF EncodedSRGB
  <2>2. Found(x) = Place(x, Fitting(x))
    OBVIOUS
  <2> HIDE DEF Found, Place, Fitting
  <2> QED
    BY <1>1, <1>2, <2>1, <2>2
<1>4. CASE x = 100000
  <2> DEFINE Fits(k) == Linear[k] <= x /\ (k = 86 \/ x < Linear[k + 1])
  <2>2. \A k \in 1..86 : Fits(k) => k = 86
    <3> TAKE k \in 1..86
    <3>1. CASE k # 86
      <4>1. PICK n \in 1..86 : n = k + 1
        BY <3>1
      <4>2. Linear[n] <= 100000 /\ Linear[n] \in Int
        BY LinearRange, LinearTable
      <4> QED
        BY <1>4, <3>1, <4>1, <4>2
    <3> QED
      BY <3>1
  <2>3. Fits(86)
    <3>1. Linear[86] = 100000
      BY SMTT(60) DEF Linear
    <3> QED
      BY <1>4, <3>1
  <2>4. Fitting(x) = CHOOSE k \in 1..86 : Fits(k)
    OBVIOUS
  <2>5. 86 \in 1..86
    OBVIOUS
  <2> HIDE DEF Fits, Fitting
  <2>6. (CHOOSE k \in 1..86 : Fits(k)) = 86
    <3>1. \E k \in 1..86 : Fits(k)
      BY <2>3, <2>5
    <3>2. (CHOOSE k \in 1..86 : Fits(k)) \in 1..86 /\ Fits(CHOOSE k \in 1..86 : Fits(k))
      BY <3>1, Zenon
    <3> QED
      BY <2>2, <3>2, Zenon
  <2>7. Fitting(x) = 86
    BY <2>4, <2>6
  <2> HIDE DEF Place
  <2>9. EncodedSRGB(x) = 25500
    BY <1>3, <2>7 DEF Place
  <2> QED
    BY <1>3, <2>9 DEF Channel
<1>5. CASE x < 100000
  <2> HIDE DEF Place, Fitting, Found
  <2>1. \E k \in 1..85 : Linear[k] <= x /\ x < Linear[k + 1]
    BY <1>1, <1>5, SMTT(60) DEF Linear
  <2>2. PICK i \in 1..85 : Linear[i] <= x /\ x < Linear[i + 1]
    BY <2>1
  <2>3. PICK j, h \in 1..86 : j = i /\ h = i + 1
    <3>1. i \in 1..86 /\ i + 1 \in 1..86
      OBVIOUS
    <3> QED
      BY <3>1
  <2>4. PICK low, high \in Int : low = Linear[j] /\ high = Linear[h]
    BY LinearTable
  <2>5. low <= x /\ x < high /\ low = Linear[i] /\ high = Linear[i + 1]
    BY <2>2, <2>3, <2>4
  <2>6. EncodedSRGB(x) = Steps(i, low, high, x)
    <3>1. Around(i, low, high, x)
      BY <2>5 DEF Around
    <3> QED
      BY <3>1, EncodedBetween
  <2>7. PICK n \in Nat, d \in Nat \ {0} : n = 300 * (x - low) /\ d = high - low /\ n < 300 * d
    BY <2>5
  <2>8. n \div d \in Nat /\ n \div d < 300
    BY <2>7, DivBelow
  <2>9. PICK e \in Int : e = 300 * (i - 1) + n \div d /\ 0 <= e /\ e <= 25500
    BY <2>8
  <2> QED
    BY <1>3, <2>6, <2>7, <2>9 DEF Channel, Steps
<1> QED
  BY <1>1, <1>4, <1>5

LEMMA CubeInt == \A x \in Int : Cube(x) \in Int
BY DEF Cube

LEMMA EncodeShade ==
    ASSUME NEW rows, NEW v,
           Dot(rows[1], v) \in Int, Dot(rows[2], v) \in Int, Dot(rows[3], v) \in Int
    PROVE  Encode(rows, v, 100) \in Shades
<1>1. PICK r, g, b \in Channel : /\ r = EncodedSRGB(Dot(rows[1], v)) /\ g = EncodedSRGB(Dot(rows[2], v))
                                 /\ b = EncodedSRGB(Dot(rows[3], v))
  BY EncodedRange
<1>2. PICK a \in 0..100 : a = 100
  OBVIOUS
<1>3. Color(r, g, b, a) = Shade(r, g, b, a)
  BY ColorKept
<1>4. Encode(rows, v, 100) = [red |-> r, green |-> g, blue |-> b, alpha |-> 100]
  BY <1>1, <1>2, <1>3 DEF Encode, Shade
<1> QED
  BY <1>4 DEF Shades

LEMMA LabShade ==
    ASSUME NEW x \in Int, NEW y \in Int, NEW z \in Int
    PROVE  LabToSRGB(x, y, z, 100) \in Shades
<1> DEFINE fy == (x + 160000) \div 116
           inverse(f) == IF Cube(f) > 886 THEN Cube(f) ELSE ((116 * f - 160000) * 100) \div 9033
           xyz == <<(inverse(fy + y \div 500) * 9642) \div 10000, inverse(fy),
                    (inverse(fy - z \div 200) * 8252) \div 10000>>
           light == ToD65(xyz)
           rows == << <<3240, -1537, -499>>, <<-969, 1876, 42>>, <<56, -204, 1057>> >>
<1>1. LabToSRGB(x, y, z, 100) = Encode(rows, light, 100)
  BY DEF LabToSRGB
<1>2. \A f \in Int : inverse(f) \in Int
  BY CubeInt
<1>3. fy \in Int /\ fy + y \div 500 \in Int /\ fy - z \div 200 \in Int
  OBVIOUS
<1> HIDE DEF inverse, fy
<1>4. PICK u, v, w \in Int : /\ u = (inverse(fy + y \div 500) * 9642) \div 10000 /\ v = inverse(fy)
                             /\ w = (inverse(fy - z \div 200) * 8252) \div 10000
  <2>1. PICK p, q, r \in Int : /\ p = inverse(fy + y \div 500) /\ q = inverse(fy)
                               /\ r = inverse(fy - z \div 200)
    BY <1>2, <1>3
  <2>2. (p * 9642) \div 10000 \in Int /\ (r * 8252) \div 10000 \in Int
    OBVIOUS
  <2> QED
    BY <2>1, <2>2
<1>5. light = ToD65(<<u, v, w>>)
  BY <1>4
<1> HIDE DEF xyz, light
<1>6. PICK a, b, c \in Int : light = <<a, b, c>>
  <2>1. PICK a, b, c \in Int : /\ a = (956 * u + (-23) * v + 63 * w) \div 1000
                               /\ b = ((-28) * u + 1010 * v + 21 * w) \div 1000
                               /\ c = (12 * u + (-20) * v + 1330 * w) \div 1000
    OBVIOUS
  <2>2. ToD65(<<u, v, w>>) = <<a, b, c>>
    BY <2>1 DEF ToD65, Dot
  <2> QED
    BY <1>5, <2>2
<1>7. /\ rows[1] = <<3240, -1537, -499>> /\ rows[2] = <<-969, 1876, 42>>
      /\ rows[3] = <<56, -204, 1057>>
  OBVIOUS
<1> HIDE DEF rows
<1>8. Dot(rows[1], light) \in Int /\ Dot(rows[2], light) \in Int /\ Dot(rows[3], light) \in Int
  BY <1>6, <1>7 DEF Dot
<1> QED
  BY <1>1, <1>8, EncodeShade

LEMMA DigitsLong ==
    /\ \A d \in [1..3 -> 0..15] : Len(d) = 3
    /\ \A d \in [1..6 -> 0..15] : Len(d) = 6
<1>1. ASSUME NEW d \in [1..3 -> 0..15] PROVE Len(d) = 3
  OBVIOUS
<1>2. ASSUME NEW d \in [1..6 -> 0..15] PROVE Len(d) = 6
  OBVIOUS
<1> QED
  BY <1>1, <1>2

\* two digits to a channel
LEMMA ByteChannel == \A x, y \in 0..15 : 100 * (16 * x + y) \in Channel
BY DEF Channel

LEMMA OpaqueColor == \A r, g, b \in Channel : Color(r, g, b, 100) = Opaque(r, g, b)
<1> TAKE r, g, b \in Channel
<1>1. PICK a \in 0..100 : a = 100
  OBVIOUS
<1>2. Color(r, g, b, a) = Shade(r, g, b, a)
  BY ColorKept
<1> QED
  BY <1>1, <1>2 DEF Opaque, Shade

LEMMA SixDigits ==
    ASSUME NEW d \in [1..6 -> 0..15]
    PROVE  /\ ParseHex(d) \in Shades
           /\ ParseHex(d) = Opaque(100 * (16 * d[1] + d[2]), 100 * (16 * d[3] + d[4]),
                                   100 * (16 * d[5] + d[6]))
<1>1. Len(d) = 6
  BY DigitsLong
<1>2. ParseHex(d) = Color(100 * (16 * d[1] + d[2]), 100 * (16 * d[3] + d[4]),
                          100 * (16 * d[5] + d[6]), 100)
  BY <1>1 DEF ParseHex
<1>3. PICK r, g, b \in Channel : /\ r = 100 * (16 * d[1] + d[2]) /\ g = 100 * (16 * d[3] + d[4])
                                 /\ b = 100 * (16 * d[5] + d[6])
  BY ByteChannel
<1> QED
  BY <1>2, <1>3, OpaqueColor, OpaqueShade

LEMMA ThreeDigits ==
    ASSUME NEW d \in [1..3 -> 0..15]
    PROVE  ParseHex(d) \in Shades
<1>1. Len(d) = 3
  BY DigitsLong
<1> DEFINE long == [i \in 1..6 |-> d[(i + 1) \div 2]]
<1>2. long \in [1..6 -> 0..15]
  <2>1. \A i \in 1..6 : (i + 1) \div 2 \in 1..3
    OBVIOUS
  <2> QED
    BY <2>1
<1>3. [i \in 1..2 * Len(d) |-> d[(i + 1) \div 2]] = long
  BY <1>1
<1>4. Len(long) = 6
  BY <1>2, DigitsLong
<1> DEFINE parsed(seen) == LET byte(k) == 16 * seen[2 * k - 1] + seen[2 * k]
                           IN  IF Len(seen) \notin {6, 8} THEN NoColor
                               ELSE Color(100 * byte(1), 100 * byte(2), 100 * byte(3),
                                          IF Len(seen) = 8 THEN (100 * byte(4)) \div 255 ELSE 100)
<1>5. ParseHex(d) = parsed(IF Len(d) \in {3, 4} THEN [i \in 1..2 * Len(d) |-> d[(i + 1) \div 2]]
                           ELSE d)
  BY DEF ParseHex
<1>6. ParseHex(long) = parsed(IF Len(long) \in {3, 4}
                              THEN [i \in 1..2 * Len(long) |-> long[(i + 1) \div 2]] ELSE long)
  BY DEF ParseHex
<1> HIDE DEF parsed, long
<1>7. ParseHex(d) = ParseHex(long)
  BY <1>1, <1>3, <1>4, <1>5, <1>6
<1> QED
  BY <1>2, <1>7, SixDigits

LEMMA NumeralRead ==
    \A token : IsNumeral(token) =>
        /\ Component(token, 1, 1) \in Int /\ Component(token, 1, 1) # NaN
        /\ Component(token, 5, 4) \in Int /\ Component(token, 5, 4) # NaN
<1> SUFFICES ASSUME NEW token, IsNumeral(token)
             PROVE  /\ Component(token, 1, 1) \in Int /\ Component(token, 1, 1) # NaN
                    /\ Component(token, 5, 4) \in Int /\ Component(token, 5, 4) # NaN
  OBVIOUS
<1>1. PICK n \in Int : n = token.n /\ n >= -10000000
  BY SMT DEF IsNumeral
<1>2. CASE token.kind = "number"
  <2>1. Component(token, 1, 1) = n /\ Component(token, 5, 4) = n
    BY <1>1, <1>2 DEF Component
  <2> QED
    BY <1>1, <2>1, SMT DEF NaN
<1>3. CASE token.kind = "percent"
  <2>1. Component(token, 1, 1) = (n * 1) \div 1 /\ Component(token, 5, 4) = (n * 5) \div 4
    BY <1>1, <1>3 DEF Component
  <2>2. PICK x, y \in Int : x = (n * 1) \div 1 /\ y = (n * 5) \div 4 /\ x >= -20000000 /\ y >= -20000000
    BY <1>1, SMT
  <2> QED
    BY <2>1, <2>2, SMT DEF NaN
<1> QED
  BY <1>2, <1>3 DEF IsNumeral

LEMMA CssShade ==
    ASSUME NEW text, CssText(text)
    PROVE  ParseRenderedColor(text) \in Shades
<1> DEFINE c == text.channels
           parsed == ParseRenderedColor(text)
<1>1. CASE text.form = "hex" /\ c \in [1..3 -> 0..15] \cup [1..6 -> 0..15]
  <2>1. parsed = ParseHex(c)
    BY <1>1, ParseCases
  <2> HIDE DEF parsed
  <2> QED
    BY <1>1, <2>1, ThreeDigits, SixDigits DEF parsed
<1>2. CASE /\ text.form = "lab" /\ Len(c) = 3
           /\ \A i \in 1..3 : IsNumeral(c[i])
  <2>1. AlphaComponent(text.alpha) = 100
    BY AlphaRead DEF CssText
  <2>2. parsed = Converted(Component(c[1], 1, 1), Component(c[2], 5, 4), Component(c[3], 5, 4),
                           100, LabToSRGB)
    BY <1>2, <2>1, ParseCases
  <2>3. IsNumeral(c[1]) /\ IsNumeral(c[2]) /\ IsNumeral(c[3])
    BY <1>2
  <2> HIDE DEF parsed, c
  <2>4. PICK x, y, z \in Int : /\ x = Component(c[1], 1, 1) /\ y = Component(c[2], 5, 4)
                               /\ z = Component(c[3], 5, 4)
                               /\ x # NaN /\ y # NaN /\ z # NaN
    BY <2>3, NumeralRead
  <2>5. 100 # NaN
    BY DEF NaN
  <2>6. parsed = LabToSRGB(x, y, z, 100)
    BY <2>2, <2>4, <2>5 DEF Converted
  <2> QED
    BY <2>6, LabShade DEF parsed
<1> QED
  BY <1>1, <1>2 DEF CssText
-----------------------------------------------------------------------------
(* The palette of the previews, which stands in for unusable colours.       *)

Byte(n, high, low) == 100 * (16 * ((n \div high) % 16) + ((n \div low) % 16))

Red(n) == Byte(n, 1048576, 65536)
Green(n) == Byte(n, 4096, 256)
Blue(n) == Byte(n, 16, 1)

LEMMA HexShade ==
    ASSUME NEW n \in Nat
    PROVE  LET c == ParseRenderedColor(HexText(n))
           IN  /\ c \in Shades
               /\ c.red = Red(n) /\ c.green = Green(n)
               /\ c.blue = Blue(n)
<1> DEFINE at == <<1048576, 65536, 4096, 256, 16, 1>>
           d == [i \in 1..6 |-> (n \div at[i]) % 16]
<1>1. \A i \in 1..6 : at[i] \in Nat \ {0}
  BY SMT
<1>2. d \in [1..6 -> 0..15]
  <2>1. \A p \in Nat \ {0} : (n \div p) % 16 \in 0..15
    BY SMT
  <2> HIDE DEF at
  <2> QED
    BY <1>1, <2>1
<1>3. /\ d[1] = (n \div 1048576) % 16 /\ d[2] = (n \div 65536) % 16
      /\ d[3] = (n \div 4096) % 16 /\ d[4] = (n \div 256) % 16
      /\ d[5] = (n \div 16) % 16 /\ d[6] = (n \div 1) % 16
  BY SMT
<1>4. HexText(n).form = "hex" /\ HexText(n).channels = d
  BY DEF HexText, Text
<1> HIDE DEF d, at
<1>5. ParseRenderedColor(HexText(n)) = ParseHex(d)
  BY <1>4, ParseCases
<1>6. /\ ParseHex(d) \in Shades
      /\ ParseHex(d) = Opaque(100 * (16 * d[1] + d[2]), 100 * (16 * d[3] + d[4]),
                              100 * (16 * d[5] + d[6]))
  BY <1>2, SixDigits
<1> QED
  BY <1>3, <1>5, <1>6 DEF Opaque, Byte, Red, Green, Blue

\* hexadecimal colours of which a theme may be made
Dark(n) == Red(n) <= 5600 /\ Green(n) <= 5600 /\ Blue(n) <= 14400
Bright(n) == Red(n) >= 19200 /\ Green(n) >= 19200
Strong(n) == Red(n) > 4400 \/ Green(n) > 4400 \/ Blue(n) > 4400
Fine(n) == n \in Nat /\ Red(n) # 100

Sound(base, primary, content) ==
    /\ Fine(base) /\ Fine(primary) /\ Fine(content)
    /\ Dark(base) \/ Bright(base)
    /\ Strong(base) \/ Strong(content)

LEMMA PaletteSound ==
    \A theme \in DOMAIN themePalette :
        \E base, primary, content :
            themePalette[theme] = Palette(base, primary, content) /\ Sound(base, primary, content)
<1>1. Sound(\hffffff, \h422ad5, \h18181b)
  BY SMT DEF Sound, Fine, Dark, Bright, Strong, Byte, Red, Green, Blue
<1>2. Sound(\h1d232a, \h605dff, \hf2f8ff)
  BY SMT DEF Sound, Fine, Dark, Bright, Strong, Byte, Red, Green, Blue
<1>3. Sound(\hfaf7f5, \h44ebd3, \h291334)
  BY SMT DEF Sound, Fine, Dark, Bright, Strong, Byte, Red, Green, Blue
<1>4. Sound(\hffffff, \hf7c800, \h161616)
  BY SMT DEF Sound, Fine, Dark, Bright, Strong, Byte, Red, Green, Blue
<1>5. Sound(\hffffff, \h66cc8a, \h333c4d)
  BY SMT DEF Sound, Fine, Dark, Bright, Strong, Byte, Red, Green, Blue
<1>6. Sound(\hffffff, \h0082c4, \h181a2a)
  BY SMT DEF Sound, Fine, Dark, Bright, Strong, Byte, Red, Green, Blue
<1>7. Sound(\h09002f, \hf861b4, \ha2b2ff)
  BY SMT DEF Sound, Fine, Dark, Bright, Strong, Byte, Red, Green, Blue
<1>8. Sound(\hece3ca, \hff9fa0, \h793205)
  BY SMT DEF Sound, Fine, Dark, Bright, Strong, Byte, Red, Green, Blue
<1>9. Sound(\hfff25a, \hff7299, \h000000)
  BY SMT DEF Sound, Fine, Dark, Bright, Strong, Byte, Red, Green, Blue
<1>10. Sound(\hfcf2f8, \hf43098, \hc2005b)
  BY SMT DEF Sound, Fine, Dark, Bright, Strong, Byte, Red, Green, Blue
<1>11. Sound(\h1b1816, \hff960c, \hcdcdcd)
  BY SMT DEF Sound, Fine, Dark, Bright, Strong, Byte, Red, Green, Blue
<1>12. Sound(\he9e7e7, \hf80076, \h100f0f)
  BY SMT DEF Sound, Fine, Dark, Bright, Strong, Byte, Red, Green, Blue
<1>13. Sound(\h1b1717, \h1fb854, \hcac9c9)
  BY SMT DEF Sound, Fine, Dark, Bright, Strong, Byte, Red, Green, Blue
<1>14. Sound(\h1a368b, \h13ecf3, \hb8e6fe)
  BY SMT DEF Sound, Fine, Dark, Bright, Strong, Byte, Red, Green, Blue
<1>15. Sound(\hffffff, \h0d0d0d, \h000000)
  BY SMT DEF Sound, Fine, Dark, Bright, Strong, Byte, Red, Green, Blue
<1>16. Sound(\hffffff, \he8d4ff, \h161616)
  BY SMT DEF Sound, Fine, Dark, Bright, Strong, Byte, Red, Green, Blue
<1>17. Sound(\hffffff, \h6b0072, \h1f2937)
  BY SMT DEF Sound, Fine, Dark, Bright, Strong, Byte, Red, Green, Blue
<1>18. Sound(\hffffff, \hd4d4d4, \h161616)
  BY SMT DEF Sound, Fine, Dark, Bright, Strong, Byte, Red, Green, Blue
<1>19. Sound(\h000000, \h3a3a3a, \hd6d6d6)
  BY SMT DEF Sound, Fine, Dark, Bright, Strong, Byte, Red, Green, Blue
<1>20. Sound(\h09090b, \hffffff, \hdca54d)
  BY SMT DEF Sound, Fine, Dark, Bright, Strong, Byte, Red, Green, Blue
<1>21. Sound(\h282a36, \hff79c6, \hf8f8f3)
  BY SMT DEF Sound, Fine, Dark, Bright, Strong, Byte, Red, Green, Blue
<1>22. Sound(\hffffff, \h45aeee, \h161616)
  BY SMT DEF Sound, Fine, Dark, Bright, Strong, Byte, Red, Green, Blue
<1>23. Sound(\hf1f1f1, \h8c0327, \h141414)
  BY SMT DEF Sound, Fine, Dark, Bright, Strong, Byte, Red, Green, Blue
<1>24. Sound(\h202020, \h1c4e80, \hcdcdcd)
  BY SMT DEF Sound, Fine, Dark, Bright, Strong, Byte, Red, Green, Blue
<1>25. Sound(\hf8f8f8, \hff24fb, \h000000)
  BY SMT DEF Sound, Fine, Dark, Bright, Strong, Byte, Red, Green, Blue
<1>26. Sound(\hf8fdef, \h4b9200, \h151614)
  BY SMT DEF Sound, Fine, Dark, Bright, Strong, Byte, Red, Green, Blue
<1>27. Sound(\h0f172a, \h3abdf7, \hc9cbd0)
  BY SMT DEF Sound, Fine, Dark, Bright, Strong, Byte, Red, Green, Blue
<1>28. Sound(\h261b25, \hdb924c, \hc59f61)
  BY SMT DEF Sound, Fine, Dark, Bright, Strong, Byte, Red, Green, Blue
<1>29. Sound(\hffffff, \h006ef6, \h394e6a)
  BY SMT DEF Sound, Fine, Dark, Bright, Strong, Byte, Red, Green, Blue
<1>30. Sound(\h2a303c, \h9fe88d, \hb2ccd6)
  BY SMT DEF Sound, Fine, Dark, Bright, Strong, Byte, Red, Green, Blue
<1>31. Sound(\heceff4, \h5e81ac, \h2e3440)
  BY SMT DEF Sound, Fine, Dark, Bright, Strong, Byte, Red, Green, Blue
<1>32. Sound(\h121c22, \hff865b, \h9fb9d0)
  BY SMT DEF Sound, Fine, Dark, Bright, Strong, Byte, Red, Green, Blue
<1>33. Sound(\hfff7ed, \h000000, \h7c2808)
  BY SMT DEF Sound, Fine, Dark, Bright, Strong, Byte, Red, Green, Blue
<1>34. Sound(\h001b20, \hc2fd00, \hffd6a7)
  BY SMT DEF Sound, Fine, Dark, Bright, Strong, Byte, Red, Green, Blue
<1>35. Sound(\hf7f5f3, \h1c1c29, \h4b4743)
  BY SMT DEF Sound, Fine, Dark, Bright, Strong, Byte, Red, Green, Blue
<1> QED
  BY <1>1, <1>2, <1>3, <1>4, <1>5, <1>6, <1>7, <1>8, <1>9, <1>10, <1>11, <1>12, <1>13,
     <1>14, <1>15, <1>16, <1>17, <1>18, <1>19, <1>20, <1>21, <1>22, <1>23, <1>24, <1>25,
     <1>26, <1>27, <1>28, <1>29, <1>30, <1>31, <1>32, <1>33, <1>34, <1>35
     DEF themePalette

Visible(c) == c \in Shades /\ ~IsSentinel(c)
IsBright(c) == c.red >= 19200 /\ c.green >= 19200
IsDim(c) == c.red <= 8800 /\ c.green <= 8800 /\ c.blue <= 16200

LEMMA ShadeNumbers ==
    \A c \in Shades : /\ c.red \in Int /\ 0 <= c.red /\ c.red <= 25500
                      /\ c.green \in Int /\ 0 <= c.green /\ c.green <= 25500
                      /\ c.blue \in Int /\ 0 <= c.blue /\ c.blue <= 25500
BY ShadeFields DEF Channel

\* The sentinel is nearly black.
LEMMA NoSentinel ==
    \A c \in Shades :
        (c.red = 0 \/ c.red >= 200 \/ c.green >= 350 \/ c.blue >= 350) => Visible(c)
<1> TAKE c \in Shades
<1>1. PICK r, g, b \in Nat : r = c.red /\ g = c.green /\ b = c.blue
  BY ShadeNumbers
<1> QED
  BY <1>1 DEF Visible, IsSentinel, Distance

LEMMA FineVisible ==
    ASSUME NEW n, Fine(n)
    PROVE  Visible(ParseRenderedColor(HexText(n)))
<1> DEFINE d == ParseRenderedColor(HexText(n))
<1>1. n \in Nat /\ Red(n) # 100
  BY DEF Fine
<1>2. d \in Shades /\ d.red = Red(n)
  BY <1>1, HexShade
<1> HIDE DEF d
<1>3. PICK x, y \in Nat : x = n \div 1048576 /\ y = n \div 65536
  BY <1>1, SMT
<1>4. d.red = 100 * (16 * (x % 16) + (y % 16))
  BY <1>2, <1>3, SMT DEF Byte, Red
<1>5. d.red = 0 \/ d.red >= 200
  BY <1>1, <1>2, <1>3, <1>4
<1>6. Visible(d)
  BY <1>2, <1>5, NoSentinel
<1> QED
  BY <1>6 DEF d

LEMMA PaletteColors ==
    ASSUME NEW theme \in DOMAIN themePalette
    PROVE  LET base == ParseRenderedColor(themePalette[theme].base)
               primary == ParseRenderedColor(themePalette[theme].primary)
               content == ParseRenderedColor(themePalette[theme].content)
           IN  /\ Visible(base) /\ Visible(primary) /\ Visible(content)
               /\ IsDark(base) \/ IsBright(base)
               /\ ~IsBlackish(base) \/ ~IsBlackish(content)
<1>1. PICK b, p, c : themePalette[theme] = Palette(b, p, c) /\ Sound(b, p, c)
  BY PaletteSound
<1>2. b \in Nat /\ p \in Nat /\ c \in Nat
  BY <1>1 DEF Sound, Fine
<1> DEFINE base == ParseRenderedColor(HexText(b))
           primary == ParseRenderedColor(HexText(p))
           content == ParseRenderedColor(HexText(c))
<1>3. /\ base = ParseRenderedColor(themePalette[theme].base)
      /\ primary = ParseRenderedColor(themePalette[theme].primary)
      /\ content = ParseRenderedColor(themePalette[theme].content)
  BY <1>1 DEF Palette
<1>4. /\ base \in Shades
      /\ base.red = Red(b) /\ base.green = Green(b)
      /\ base.blue = Blue(b)
  BY <1>2, HexShade
<1>5. /\ content \in Shades
      /\ content.red = Red(c) /\ content.green = Green(c)
      /\ content.blue = Blue(c)
  BY <1>2, HexShade
<1>6. Visible(base) /\ Visible(primary) /\ Visible(content)
  BY <1>1, FineVisible DEF Sound
<1> HIDE DEF base, content, primary
<1>7. IsDark(base) \/ IsBright(base)
  BY <1>1, <1>4 DEF Sound, Dark, Bright, IsDark, IsBright
<1>8. ~IsBlackish(base) \/ ~IsBlackish(content)
  <2>1. /\ base.red \in Int /\ base.green \in Int /\ base.blue \in Int
        /\ content.red \in Int /\ content.green \in Int /\ content.blue \in Int
    BY <1>4, <1>5, ShadeNumbers
  <2>2. Strong(b) \/ Strong(c)
    BY <1>1 DEF Sound
  <2>3. \/ base.red > 4400 \/ base.green > 4400 \/ base.blue > 4400
        \/ content.red > 4400 \/ content.green > 4400 \/ content.blue > 4400
    BY <1>4, <1>5, <2>2 DEF Strong
  <2> QED
    BY <2>1, <2>3 DEF IsBlackish
<1> QED
  BY <1>3, <1>6, <1>7, <1>8

\* Which luminance the surfaces have, those behind an accent included.
LEMMA LuminanceBounds ==
    ASSUME NEW c \in Shades
    PROVE  /\ c.red <= 10500 /\ c.green <= 10500 /\ c.blue <= 17400 => Luminance(c) <= 17340
           /\ c.red >= 14400 /\ c.green >= 14400 => Luminance(c) >= 18500
<1>1. PICK r, g, b \in Nat : /\ r = LinearOf(c.red) /\ g = LinearOf(c.green) /\ b = LinearOf(c.blue)
                             /\ r <= 100000 /\ g <= 100000 /\ b <= 100000
  BY ShadeFields, LightNat
<1>2. Luminance(c) = (2126 * r + 7152 * g + 722 * b) \div 10000
  BY <1>1 DEF Luminance
<1>3. Linear[36] = 14126 /\ Linear[59] = 42327 /\ Linear[49] = 27889
  BY SMTT(60) DEF Linear
<1>4. PICK i, j, k \in 1..86 : i = 36 /\ j = 59 /\ k = 49
  OBVIOUS
<1>5. ASSUME c.red <= 10500, c.green <= 10500, c.blue <= 17400
      PROVE  Luminance(c) <= 17340
  <2>1. r <= 14126 /\ g <= 14126
    BY <1>1, <1>3, <1>4, <1>5, ShadeFields, LightRange
  <2>2. b <= 42327
    BY <1>1, <1>3, <1>4, <1>5, ShadeFields, LightRange
  <2> QED
    BY <1>2, <2>1, <2>2, SMT
<1>6. ASSUME c.red >= 14400, c.green >= 14400
      PROVE  Luminance(c) >= 18500
  <2>1. r >= 27889 /\ g >= 27889
    BY <1>1, <1>3, <1>4, <1>6, ShadeFields, LightRange
  <2> QED
    BY <1>2, <2>1, SMT
<1> QED
  BY <1>5, <1>6
-----------------------------------------------------------------------------
(* The colours of a style sheet can be seen, and its surfaces are of a kind. *)

Surfaces == {"base-100", "base-200", "base-300"}

GoodColors(color) ==
    /\ \A v \in Variables : Visible(color[v])
    /\ (\A v \in Surfaces : IsDim(color[v])) \/ (\A v \in Surfaces : IsLight(color[v]))

\* what readVariableColor returns: what may still be lifted is lifted visibly
GoodRead(read) ==
    /\ GoodColors(read)
    /\ \/ \A v \in Surfaces : IsLight(read[v])
       \/ /\ IsDark(read["base-100"])
          /\ \/ ~IsBlackish(read["base-100"]) \/ ~IsBlackish(read["base-content"])
             \/ read["base-100"] = Black /\ read["base-content"] = Black

LEMMA MixBounds ==
    \A f, b \in Channel : \A s \in {8, 16} :
        /\ b <= 5600 => Mix(f, b, s) <= 8800
        /\ b <= 14400 => Mix(f, b, s) <= 16200
        /\ b >= 19200 => Mix(f, b, s) >= 16000
        /\ f > 4400 \/ b > 4400 => Mix(f, b, s) >= 350
        /\ f = 0 /\ b = 0 => Mix(f, b, s) = 0
<1> TAKE f, b \in Channel
<1>1. f \in Int /\ 0 <= f /\ f <= 25500 /\ b \in Int /\ 0 <= b /\ b <= 25500
  BY DEF Channel
<1> TAKE s \in {8, 16}
<1>2. CASE s = 8
  BY <1>1, <1>2, SMT DEF Mix
<1>3. CASE s = 16
  BY <1>1, <1>3, SMT DEF Mix
<1> QED
  BY <1>2, <1>3

LEMMA BlendKept ==
    ASSUME NEW c \in Shades, NEW b \in Shades, NEW s \in {8, 16}
    PROVE  /\ IsDark(b) => IsDim(Blend(c, b, s))
           /\ IsBright(b) => IsLight(Blend(c, b, s))
           /\ ~IsBlackish(b) \/ ~IsBlackish(c) \/ (b = Black /\ c = Black) => Visible(Blend(c, b, s))
<1> DEFINE d == Blend(c, b, s)
<1>1. s \in 0..100
  OBVIOUS
<1>2. /\ d \in Shades
      /\ d = Opaque(Mix(c.red, b.red, s), Mix(c.green, b.green, s), Mix(c.blue, b.blue, s))
  BY <1>1, BlendShade
<1>3. d.red = Mix(c.red, b.red, s) /\ d.green = Mix(c.green, b.green, s) /\ d.blue = Mix(c.blue, b.blue, s)
  BY <1>2 DEF Opaque
<1> HIDE DEF d
<1>4. /\ c.red \in Channel /\ c.green \in Channel /\ c.blue \in Channel
      /\ b.red \in Channel /\ b.green \in Channel /\ b.blue \in Channel
  BY ShadeFields
<1>5. IsDark(b) => IsDim(d)
  <2> HAVE IsDark(b)
  <2>1. b.red <= 5600 /\ b.green <= 5600 /\ b.blue <= 14400
    BY DEF IsDark
  <2>2. d.red <= 8800 /\ d.green <= 8800 /\ d.blue <= 16200
    BY <1>3, <1>4, <2>1, MixBounds
  <2> QED
    BY <2>2 DEF IsDim
<1>6. IsBright(b) => IsLight(d)
  <2> HAVE IsBright(b)
  <2>1. b.red >= 19200 /\ b.green >= 19200
    BY DEF IsBright
  <2>2. d.red >= 16000 /\ d.green >= 16000
    BY <1>3, <1>4, <2>1, MixBounds
  <2> QED
    BY <2>2 DEF IsLight
<1>7. ~IsBlackish(b) \/ ~IsBlackish(c) => Visible(d)
  <2> HAVE ~IsBlackish(b) \/ ~IsBlackish(c)
  <2>1. /\ b.red \in Int /\ b.green \in Int /\ b.blue \in Int
        /\ c.red \in Int /\ c.green \in Int /\ c.blue \in Int
    BY ShadeNumbers
  <2>2. (c.red > 4400 \/ b.red > 4400) \/ (c.green > 4400 \/ b.green > 4400) \/ (c.blue > 4400 \/ b.blue > 4400)
    BY <2>1 DEF IsBlackish
  <2>3. d.red >= 350 \/ d.green >= 350 \/ d.blue >= 350
    BY <1>3, <1>4, <2>2, MixBounds
  <2>4. d.red >= 200 \/ d.green >= 350 \/ d.blue >= 350
    BY <1>2, <2>3, ShadeNumbers
  <2> QED
    BY <1>2, <2>4, NoSentinel
<1>8. b = Black /\ c = Black => Visible(d)
  <2> HAVE b = Black /\ c = Black
  <2>1. c.red = 0 /\ b.red = 0
    BY DEF Black, Opaque
  <2>2. d.red = 0
    BY <1>3, <1>4, <2>1, MixBounds
  <2> QED
    BY <1>2, <2>2, NoSentinel
<1> QED
  BY <1>5, <1>6, <1>7, <1>8 DEF d

LEMMA LiftedGood ==
    ASSUME NEW read, GoodRead(read)
    PROVE  GoodColors([v \in Variables |-> Lifted(v, read)])
<1> DEFINE base == read["base-100"]
           content == read["base-content"]
<1>0. Surfaces \subseteq Variables /\ "base-100" \in Surfaces /\ "base-content" \in Variables
  BY DEF Surfaces, Variables
<1>1. /\ \A v \in Variables : Visible(read[v])
      /\ base \in Shades /\ content \in Shades
  BY <1>0 DEF GoodRead, GoodColors, Visible
<1>2. CASE \A v \in Surfaces : IsLight(read[v])
  <2>1. base.red >= 14400 /\ base.green >= 14400
    <3>1. base.red >= 16000 /\ base.green >= 16000
      BY <1>0, <1>2 DEF IsLight
    <3> QED
      BY <1>1, <3>1, ShadeNumbers
  <2>2. ~(Luminance(base) < 15000)
    BY <1>1, <2>1, LuminanceBounds, LuminanceRange
  <2>3. \A v \in Variables : Lifted(v, read) = read[v]
    BY <2>2 DEF Lifted
  <2> QED
    BY <1>0, <1>1, <1>2, <2>3 DEF GoodColors
<1>3. CASE ~(\A v \in Surfaces : IsLight(read[v]))
  <2>1. /\ \A v \in Surfaces : IsDim(read[v])
        /\ IsDark(base)
        /\ ~IsBlackish(base) \/ ~IsBlackish(content) \/ (base = Black /\ content = Black)
    BY <1>3 DEF GoodRead, GoodColors
  <2>2. \A s \in {8, 16} : IsDim(Blend(content, base, s)) /\ Visible(Blend(content, base, s))
    BY <1>1, <2>1, BlendKept
  <2>3. \A v \in Variables : \/ Lifted(v, read) = read[v]
                             \/ Lifted(v, read) = Blend(content, base, 8)
                             \/ Lifted(v, read) = Blend(content, base, 16)
    BY DEF Lifted
  <2>4. \A v \in Variables : Visible(Lifted(v, read))
    BY <1>1, <2>2, <2>3
  <2>5. \A v \in Surfaces : IsDim(Lifted(v, read))
    BY <1>0, <2>1, <2>2, <2>3
  <2> QED
    BY <1>0, <2>4, <2>5 DEF GoodColors
<1> QED
  BY <1>2, <1>3

\* what engines tell in the rgb() notation
Told(r, g, b, opacity) == Text("rgb", <<Number(r * 100), Number(g * 100), Number(b * 100)>>, opacity)

LEMMA ToldRead ==
    \A r, g, b \in Channel : \A opacity \in {Absent, Number(0)} :
         ParseRenderedColor(Told(r, g, b, opacity)) =
           [red |-> r, green |-> g, blue |-> b, alpha |-> AlphaComponent(opacity)]
<1> TAKE r, g, b \in Channel
<1> TAKE opacity \in {Absent, Number(0)}
<1> DEFINE c == <<Number(r * 100), Number(g * 100), Number(b * 100)>>
           text == Text("rgb", c, opacity)
<1>1. r \in Int /\ g \in Int /\ b \in Int /\ 0 <= r /\ 0 <= g /\ 0 <= b
  BY DEF Channel
<1>2. text.form = "rgb" /\ text.channels = c /\ text.alpha = opacity /\ Len(c) = 3
  BY DEF Text
<1>3. RgbAlpha(text) = opacity
  BY <1>2 DEF RgbAlpha
<1>4. /\ Component(c[1], 51, 20) = r * 100 /\ Component(c[2], 51, 20) = g * 100
      /\ Component(c[3], 51, 20) = b * 100
  <2>1. \A n \in Int : Component(Number(n), 51, 20) = n
    BY DEF Component, Number
  <2> QED
    BY <1>1, <2>1
<1> HIDE DEF text, c
<1>5. ParseRenderedColor(text) =
         Converted(r * 100, g * 100, b * 100, AlphaComponent(opacity), RgbToSRGB)
  BY <1>2, <1>3, <1>4, ParseCases
<1>6. PICK a \in 0..100 : a = AlphaComponent(opacity)
  BY AlphaRead
<1>7. ~(NaN \in {r * 100, g * 100, b * 100, a})
  BY <1>1, SMT DEF NaN
<1>8. ParseRenderedColor(text) = Color(r, g, b, a)
  <2>1. (r * 100) \div 100 = r /\ (g * 100) \div 100 = g /\ (b * 100) \div 100 = b
    BY <1>1
  <2> QED
    BY <1>5, <1>6, <1>7, <2>1 DEF Converted, RgbToSRGB
<1>9. Color(r, g, b, a) = Shade(r, g, b, a)
  BY ColorKept
<1> QED
  BY <1>6, <1>8, <1>9 DEF text, c, Told, Shade

\* What the probe element computes, read.
LEMMA AnswersRead ==
    /\ ~Usable(ParseRenderedColor(NoText))
    /\ ~Usable(ParseRenderedColor(RgbText(0, 0, 0, Number(0))))
    /\ IsSentinel(ParseRenderedColor(Sentinel))
    /\ ParseRenderedColor(RgbText(0, 0, 0, Absent)) = Black
<1>1. ~Usable(ParseRenderedColor(NoText))
  <2>1. ParseRenderedColor(NoText) = NoColor
    BY ParseCases DEF NoText, Text
  <2> QED
    BY <2>1 DEF Usable, NoColor
<1>2. AlphaComponent(Absent) = 100 /\ AlphaComponent(Number(0)) = 0
  BY AlphaRead
<1>3. 0 \in Channel /\ 100 \in Channel /\ 200 \in Channel /\ 300 \in Channel
  BY DEF Channel
<1>4. ~Usable(ParseRenderedColor(RgbText(0, 0, 0, Number(0))))
  <2>1. RgbText(0, 0, 0, Number(0)) = Told(0, 0, 0, Number(0))
    BY DEF RgbText, Told
  <2>2. ParseRenderedColor(RgbText(0, 0, 0, Number(0))) = [red |-> 0, green |-> 0, blue |-> 0, alpha |-> 0]
    BY <1>2, <1>3, <2>1, ToldRead
  <2> QED
    BY <2>2 DEF Usable
<1>5. ParseRenderedColor(RgbText(0, 0, 0, Absent)) = Black
  <2>1. RgbText(0, 0, 0, Absent) = Told(0, 0, 0, Absent)
    BY DEF RgbText, Told
  <2>2. ParseRenderedColor(RgbText(0, 0, 0, Absent)) = [red |-> 0, green |-> 0, blue |-> 0, alpha |-> 100]
    BY <1>2, <1>3, <2>1, ToldRead
  <2> QED
    BY <2>2 DEF Black, Opaque
<1>6. IsSentinel(ParseRenderedColor(Sentinel))
  <2>1. Sentinel = Told(100, 200, 300, Absent)
    BY DEF Sentinel, RgbText, Told
  <2>2. ParseRenderedColor(Sentinel) = [red |-> 100, green |-> 200, blue |-> 300, alpha |-> 100]
    BY <1>2, <1>3, <2>1, ToldRead
  <2> QED
    BY <2>2 DEF IsSentinel, Distance
<1> QED
  BY <1>1, <1>4, <1>5, <1>6

LEMMA ReadCases ==
    ASSUME NEW v, NEW raw, NEW computed, NEW palette
    PROVE  LET read == ReadVariableColor(v, raw, computed, palette)
               root == ParseRenderedColor(raw)
               probed == ParseRenderedColor(computed)
           IN  /\ Usable(root) => read = root
               /\ ~Usable(root) /\ Usable(probed) /\ ~IsSentinel(probed) => read = probed
               /\ ~Usable(root) /\ (~Usable(probed) \/ IsSentinel(probed)) =>
                    read = SafeFallbackColor(v, palette)
BY DEF ReadVariableColor

LEMMA ShadeUsable == \A c \in Shades : Usable(c)
BY ShadeFields DEF Usable

LEMMA CssTheme ==
    ASSUME NEW source
    PROVE  \E theme \in DOMAIN Stylesheet : Css(source) = Stylesheet[theme]
BY CompatAssumption DEF Css

\* As the style sheet says it, in either notation.
LEMMA CssGood ==
    ASSUME NEW source, NEW notation \in DOMAIN Css(source)
    PROVE  GoodRead([v \in Variables |-> ParseRenderedColor(Css(source)[notation][v])])
<1> DEFINE color(v) == ParseRenderedColor(Css(source)[notation][v])
           read == [v \in Variables |-> color(v)]
<1>1. /\ \A v \in Variables : CssText(Css(source)[notation][v]) /\ ~IsSentinel(color(v))
      /\ (\A v \in Surfaces : IsDark(color(v))) \/ (\A v \in Surfaces : IsLight(color(v)))
      /\ ~IsBlackish(color("base-100")) \/ ~IsBlackish(color("base-content"))
  <2>1. PICK theme \in DOMAIN Stylesheet : Css(source) = Stylesheet[theme]
    BY CssTheme
  <2> QED
    BY <2>1, StylesheetAssumption DEF Surfaces
<1>2. \A v \in Variables : color(v) \in Shades
  BY <1>1, CssShade
<1> HIDE DEF color
<1>3. Surfaces \subseteq Variables /\ "base-100" \in Surfaces /\ "base-content" \in Variables
  BY DEF Surfaces, Variables
<1>4. \A v \in Variables : read[v] = color(v)
  OBVIOUS
<1>5. \A v \in Surfaces : IsDark(color(v)) => IsDim(color(v))
  <2> TAKE v \in Surfaces
  <2>1. PICK r, g, b \in Int : r = color(v).red /\ g = color(v).green /\ b = color(v).blue
    BY <1>2, <1>3, ShadeNumbers
  <2> QED
    BY <2>1 DEF IsDark, IsDim
<1> HIDE DEF read
<1>6. GoodColors(read)
  <2>1. \A v \in Variables : Visible(read[v])
    BY <1>1, <1>2, <1>4 DEF Visible
  <2>2. (\A v \in Surfaces : IsDim(read[v])) \/ (\A v \in Surfaces : IsLight(read[v]))
    BY <1>1, <1>3, <1>4, <1>5
  <2> QED
    BY <2>1, <2>2 DEF GoodColors
<1>7. GoodRead(read)
  BY <1>1, <1>3, <1>4, <1>6 DEF GoodRead
<1> QED
  BY <1>7 DEF read, color

\* What stands in for the variables of a theme whose own cannot be used.
LEMMA FallbackGood ==
    ASSUME NEW theme \in DOMAIN themePalette
    PROVE  GoodRead([v \in Variables |-> SafeFallbackColor(v, themePalette[theme])])
<1> DEFINE palette == themePalette[theme]
           base == ParseRenderedColor(palette.base)
           primary == ParseRenderedColor(palette.primary)
           content == ParseRenderedColor(palette.content)
           read == [v \in Variables |-> SafeFallbackColor(v, palette)]
<1>1. /\ Visible(base) /\ Visible(primary) /\ Visible(content)
      /\ IsDark(base) \/ IsBright(base)
      /\ ~IsBlackish(base) \/ ~IsBlackish(content)
  BY PaletteColors
<1>2. Visible(SafeFallbackColor("error", palette))
  <2>1. PICK n \in Nat : n = \hff657f
    BY SMT
  <2>2. Fine(n)
    BY <2>1, SMT DEF Fine, Red, Byte
  <2>3. SafeFallbackColor("error", palette) = ParseRenderedColor(HexText(n))
    BY <2>1, SMT DEF SafeFallbackColor
  <2> QED
    BY <2>2, <2>3, FineVisible
<1>3. /\ SafeFallbackColor("base-100", palette) = base
      /\ SafeFallbackColor("base-200", palette) = Blend(content, base, 8)
      /\ SafeFallbackColor("base-300", palette) = Blend(content, base, 16)
      /\ SafeFallbackColor("primary", palette) = primary
      /\ SafeFallbackColor("primary-content", palette) = primary
      /\ SafeFallbackColor("base-content", palette) = content
  BY SMT DEF SafeFallbackColor
<1>4. base \in Shades /\ content \in Shades
  BY <1>1 DEF Visible
<1> HIDE DEF base, primary, content, palette
<1>5. \A s \in {8, 16} : /\ Visible(Blend(content, base, s))
                         /\ IsDark(base) => IsDim(Blend(content, base, s))
                         /\ IsBright(base) => IsLight(Blend(content, base, s))
  BY <1>1, <1>4, BlendKept
<1>6. /\ read["base-100"] = base /\ read["base-200"] = Blend(content, base, 8)
      /\ read["base-300"] = Blend(content, base, 16) /\ read["primary"] = primary
      /\ read["primary-content"] = primary /\ read["base-content"] = content
      /\ Visible(read["error"])
  BY <1>2, <1>3 DEF Variables
<1> HIDE DEF read
<1>7. \A v \in Variables : Visible(read[v])
  BY <1>1, <1>5, <1>6 DEF Variables
<1>8. IsDark(base) => IsDim(base)
  <2>1. base.red \in Int /\ base.green \in Int /\ base.blue \in Int
    BY <1>4, ShadeNumbers
  <2> QED
    BY <2>1 DEF IsDark, IsDim
<1>9. IsBright(base) => IsLight(base)
  <2>1. base.red \in Int /\ base.green \in Int
    BY <1>4, ShadeNumbers
  <2> QED
    BY <2>1 DEF IsBright, IsLight
<1>10. CASE IsDark(base)
  <2>1. \A v \in Surfaces : IsDim(read[v])
    BY <1>5, <1>6, <1>8, <1>10 DEF Surfaces
  <2>2. GoodRead(read)
    BY <1>1, <1>6, <1>7, <1>10, <2>1 DEF GoodRead, GoodColors
  <2> QED
    BY <2>2 DEF read, palette
<1>11. CASE IsBright(base)
  <2>1. \A v \in Surfaces : IsLight(read[v])
    BY <1>5, <1>6, <1>9, <1>11 DEF Surfaces
  <2>2. GoodRead(read)
    BY <1>7, <2>1 DEF GoodRead, GoodColors
  <2> QED
    BY <2>2 DEF read, palette
<1> QED
  BY <1>1, <1>10, <1>11

LEMMA BlackGood == GoodRead([v \in Variables |-> Black])
<1> DEFINE read == [v \in Variables |-> Black]
<1>1. Black \in Shades /\ Black.red = 0 /\ Black.green = 0 /\ Black.blue = 0
  BY WhiteAndBlack DEF Black, Opaque
<1>2. Visible(Black)
  BY <1>1, NoSentinel
<1>3. IsDark(Black) /\ IsDim(Black)
  BY <1>1 DEF IsDark, IsDim
<1>4. Surfaces \subseteq Variables /\ "base-100" \in Variables /\ "base-content" \in Variables
  BY DEF Surfaces, Variables
<1>5. \A v \in Variables : read[v] = Black
  OBVIOUS
<1> HIDE DEF read
<1>6. GoodRead(read)
  BY <1>2, <1>3, <1>4, <1>5 DEF GoodRead, GoodColors
<1> QED
  BY <1>6 DEF read

ReadColors(source) ==
    [v \in Variables |-> ReadVariableColor(v, RawText(source, v), ComputedText(source, v),
                                           ActiveThemePalette(source))]

\* Whether the text is readable, only the probe element or neither.
LEMMA ReadGood ==
    ASSUME NEW source \in Sources
    PROVE  GoodRead(ReadColors(source))
<1>1. source.computed \in {"theme", "rejected", "transparent", "inherited"}
  <2>1. PICK e \in Engines : source.computed = e.computed
    BY DEF Sources
  <2> QED
    BY <2>1, EnginesAssumption
<1>2. "hex" \in DOMAIN Css(source)
  <2>1. PICK theme \in DOMAIN Stylesheet : Css(source) = Stylesheet[theme]
    BY CssTheme
  <2> QED
    BY <2>1, StylesheetAssumption
<1>3. \A v \in Variables, notation \in DOMAIN Css(source) :
         LET color == ParseRenderedColor(Css(source)[notation][v])
         IN  Usable(color) /\ ~IsSentinel(color)
  <2> TAKE v \in Variables, notation \in DOMAIN Css(source)
  <2> DEFINE read == [w \in Variables |-> ParseRenderedColor(Css(source)[notation][w])]
  <2>1. GoodRead(read)
    BY CssGood
  <2>2. read[v] = ParseRenderedColor(Css(source)[notation][v])
    OBVIOUS
  <2> HIDE DEF read
  <2>3. read[v] \in Shades /\ ~IsSentinel(read[v])
    BY <2>1 DEF GoodRead, GoodColors, Visible
  <2> QED
    BY <2>2, <2>3, ShadeUsable
<1>4. CASE source.raw # "none"
  <2>1. PICK notation \in DOMAIN Css(source) : \A v : RawText(source, v) = Css(source)[notation][v]
    BY <1>2, <1>4 DEF RawText
  <2>2. \A v \in Variables :
           ReadVariableColor(v, RawText(source, v), ComputedText(source, v), ActiveThemePalette(source)) =
             ParseRenderedColor(Css(source)[notation][v])
    BY <1>3, <2>1, ReadCases
  <2>3. ReadColors(source) = [v \in Variables |-> ParseRenderedColor(Css(source)[notation][v])]
    BY <2>2 DEF ReadColors
  <2> QED
    BY <2>3, CssGood
<1>5. CASE source.raw = "none"
  <2>1. \A v : ~Usable(ParseRenderedColor(RawText(source, v)))
    BY <1>5, AnswersRead DEF RawText
  <2>2. CASE source.computed = "theme"
    <3>1. \A v : ComputedText(source, v) = Css(source)["hex"][v]
      BY <2>2 DEF ComputedText
    <3>2. \A v \in Variables :
             ReadVariableColor(v, RawText(source, v), ComputedText(source, v), ActiveThemePalette(source)) =
               ParseRenderedColor(Css(source)["hex"][v])
      BY <1>2, <1>3, <2>1, <3>1, ReadCases
    <3>3. ReadColors(source) = [v \in Variables |-> ParseRenderedColor(Css(source)["hex"][v])]
      BY <3>2 DEF ReadColors
    <3> QED
      BY <1>2, <3>3, CssGood
  <2>3. CASE source.computed = "inherited"
    <3>1. \A v : ComputedText(source, v) = RgbText(0, 0, 0, Absent)
      BY <2>3 DEF ComputedText
    <3>2. Usable(Black) /\ ~IsSentinel(Black)
      BY WhiteAndBlack, ShadeUsable DEF Black, Opaque, IsSentinel, Distance
    <3>3. \A v \in Variables :
             ReadVariableColor(v, RawText(source, v), ComputedText(source, v), ActiveThemePalette(source)) =
               Black
      BY <2>1, <3>1, <3>2, AnswersRead, ReadCases
    <3>4. ReadColors(source) = [v \in Variables |-> Black]
      BY <3>3 DEF ReadColors
    <3> QED
      BY <3>4, BlackGood
  <2>4. CASE source.computed \in {"rejected", "transparent"}
    <3>1. \A v : LET probed == ParseRenderedColor(ComputedText(source, v))
                 IN  ~Usable(probed) \/ IsSentinel(probed)
      BY <2>4, AnswersRead DEF ComputedText
    <3>2. PICK theme \in DOMAIN themePalette : ActiveThemePalette(source) = themePalette[theme]
      <4>1. "light" \in DOMAIN themePalette /\ themePalette.light = themePalette["light"]
        BY DEF themePalette
      <4> QED
        BY <4>1 DEF ActiveThemePalette
    <3>3. \A v \in Variables :
             ReadVariableColor(v, RawText(source, v), ComputedText(source, v), ActiveThemePalette(source)) =
               SafeFallbackColor(v, themePalette[theme])
      BY <2>1, <3>1, <3>2, ReadCases
    <3>4. ReadColors(source) = [v \in Variables |-> SafeFallbackColor(v, themePalette[theme])]
      BY <3>3 DEF ReadColors
    <3> QED
      BY <3>4, FallbackGood
  <2> QED
    BY <1>1, <2>2, <2>3, <2>4
<1> QED
  BY <1>4, <1>5

LEMMA ColorsGood ==
    ASSUME NEW source \in Sources
    PROVE  GoodColors(Colors(source))
<1> DEFINE read == ReadColors(source)
<1>1. GoodRead(read)
  BY ReadGood
<1>2. Colors(source) = [v \in Variables |-> Lifted(v, read)]
  BY DEF Colors, ReadColors
<1> HIDE DEF read
<1> QED
  BY <1>1, <1>2, LiftedGood

\* The surface of the navigation and the same behind an accent.
LEMMA AccentBounds ==
    ASSUME NEW c \in Shades, NEW b \in Shades
    PROVE  LET d == Blend(c, b, 10)
           IN  /\ d \in Shades
               /\ IsDim(b) => Luminance(d) <= 17340
               /\ IsLight(b) => Luminance(d) >= 18500
<1> DEFINE d == Blend(c, b, 10)
<1>1. PICK s \in 0..100 : s = 10
  OBVIOUS
<1>2. d \in Shades /\ d = Opaque(Mix(c.red, b.red, 10), Mix(c.green, b.green, 10), Mix(c.blue, b.blue, 10))
  BY <1>1, BlendShade
<1>3. d.red = Mix(c.red, b.red, 10) /\ d.green = Mix(c.green, b.green, 10) /\ d.blue = Mix(c.blue, b.blue, 10)
  BY <1>2 DEF Opaque
<1> HIDE DEF d
<1>4. \A f, g \in Channel : /\ g <= 8800 => Mix(f, g, 10) <= 10500
                            /\ g <= 16200 => Mix(f, g, 10) <= 17400
                            /\ g >= 16000 => Mix(f, g, 10) >= 14400
  BY SMT DEF Channel, Mix
<1>5. /\ c.red \in Channel /\ c.green \in Channel /\ c.blue \in Channel
      /\ b.red \in Channel /\ b.green \in Channel /\ b.blue \in Channel
  BY ShadeFields
<1>6. IsDim(b) => Luminance(d) <= 17340
  <2> HAVE IsDim(b)
  <2>1. d.red <= 10500 /\ d.green <= 10500 /\ d.blue <= 17400
    BY <1>3, <1>4, <1>5 DEF IsDim
  <2> QED
    BY <1>2, <2>1, LuminanceBounds
<1>7. IsLight(b) => Luminance(d) >= 18500
  <2> HAVE IsLight(b)
  <2>1. d.red >= 14400 /\ d.green >= 14400
    BY <1>3, <1>4, <1>5 DEF IsLight
  <2> QED
    BY <1>2, <2>1, LuminanceBounds
<1> QED
  BY <1>2, <1>6, <1>7 DEF d

LEMMA SurfaceBounds ==
    ASSUME NEW c \in Shades
    PROVE  /\ IsDim(c) => Luminance(c) <= 17340
           /\ IsLight(c) => Luminance(c) >= 18500
<1>1. PICK r, g, b \in Int : r = c.red /\ g = c.green /\ b = c.blue
  BY ShadeNumbers
<1>2. IsDim(c) => c.red <= 10500 /\ c.green <= 10500 /\ c.blue <= 17400
  BY <1>1 DEF IsDim
<1>3. IsLight(c) => c.red >= 14400 /\ c.green >= 14400
  BY <1>1 DEF IsLight
<1> QED
  BY <1>2, <1>3, LuminanceBounds

LEMMA ReadableOnThree ==
    \A desired \in Shades : \A alpha \in 0..100 : \A p, q, r \in Shades :
        Agreeing(p, q, r) =>
            LET c == ReadableColor(desired, <<p, q, r>>, alpha)
            IN  Readable(c, Rounded(p)) /\ Readable(c, Rounded(q)) /\ Readable(c, Rounded(r))
<1> TAKE desired \in Shades
<1> TAKE alpha \in 0..100
<1> TAKE p, q, r \in Shades
<1> HAVE Agreeing(p, q, r)
<1> DEFINE three == <<p, q, r>>
           c == ReadableColor(desired, three, alpha)
<1>1. Standing(three, p, q, r)
  BY DEF Standing
<1> HIDE DEF three
<1>2. Readable(c, Rounded(p)) /\ Readable(c, Rounded(q)) /\ Readable(c, Rounded(r))
  BY <1>1, ReadableOnAll
<1> QED
  BY <1>2 DEF three

\* One or two surfaces instead of three.
LEMMA ReadableOnFew ==
    \A desired \in Shades : \A alpha \in 0..100 : \A p, q \in Shades :
        /\ Readable(ReadableColor(desired, <<p>>, alpha), Rounded(p))
        /\ Agreeing(p, q, q) => Readable(ReadableColor(desired, <<p, q>>, alpha), Rounded(p))
<1> TAKE desired \in Shades
<1> TAKE alpha \in 0..100
<1> TAKE p, q \in Shades
<1>1. Readable(ReadableColor(desired, <<p>>, alpha), Rounded(p))
  <2> DEFINE one == <<p>>
             c == ReadableColor(desired, one, alpha)
  <2>1. Standing(one, p, p, p)
    BY DEF Standing
  <2>2. Agreeing(p, p, p)
    BY DEF Agreeing
  <2> HIDE DEF one
  <2>3. Readable(c, Rounded(p)) /\ Readable(c, Rounded(p)) /\ Readable(c, Rounded(p))
    BY <2>1, <2>2, ReadableOnAll
  <2> QED
    BY <2>3 DEF one
<1>2. ASSUME Agreeing(p, q, q)
      PROVE  Readable(ReadableColor(desired, <<p, q>>, alpha), Rounded(p))
  <2> DEFINE two == <<p, q>>
             c == ReadableColor(desired, two, alpha)
  <2>1. Standing(two, p, q, q)
    BY DEF Standing
  <2> HIDE DEF two
  <2>2. Readable(c, Rounded(p)) /\ Readable(c, Rounded(q)) /\ Readable(c, Rounded(q))
    BY <1>2, <2>1, ReadableOnAll
  <2> QED
    BY <2>2 DEF two
<1> QED
  BY <1>1, <1>2

\* Every text of a style sheet that is made readable, on every surface it may stand on.
LEMMA SheetReadable ==
    ASSUME NEW color, GoodColors(color), NEW classes, \A class \in classes : class.alpha \in Nat
    PROVE  \A pair \in TextsOnSurfaces(Sheet(color, classes)) : Readable(pair[1], pair[2])
<1> DEFINE p == color["base-100"]
           q == color["base-200"]
           r == color["base-300"]
           content == color["base-content"]
           primary == color["primary"]
           accent == Blend(primary, r, 10)
           surfaces == <<p, q, r>>
           sheet == Sheet(color, classes)
           nav == sheet.navigation
           utility == sheet.utilities
           inText == {c \in classes : c.kind = "text" /\ c.variable = "base-content" /\ c.alpha > 0}
<1>1. /\ p \in Shades /\ q \in Shades /\ r \in Shades /\ content \in Shades /\ primary \in Shades
      /\ color["primary-content"] \in Shades
  BY DEF GoodColors, Visible, Variables
<1>2. \/ IsDim(p) /\ IsDim(q) /\ IsDim(r)
      \/ IsLight(p) /\ IsLight(q) /\ IsLight(r)
  BY DEF GoodColors, Surfaces
<1>3. Agreeing(p, q, r)
  BY <1>1, <1>2, SurfaceBounds DEF Agreeing
<1>4. accent \in Shades /\ Agreeing(r, accent, accent)
  BY <1>1, <1>2, SurfaceBounds, AccentBounds DEF Agreeing
<1>5. /\ sheet.surfaces = surfaces
      /\ sheet.muted = ReadableColor(content, surfaces, 80)
      /\ sheet.content = ReadableColor(content, surfaces, 100)
      /\ nav = NavigationColors(color, surfaces)
      /\ utility = [class \in classes |-> UtilityColor(class, color, surfaces)]
  BY DEF Sheet
<1>6. /\ nav.foreground = ReadableColor(content, <<r>>, 80)
      /\ nav.accent = ReadableColor(primary, <<r, accent>>, 100)
      /\ nav.button = Rounded(primary)
      /\ nav.buttonText = ReadableColor(color["primary-content"], <<primary>>, 100)
  BY <1>5 DEF NavigationColors
<1>7. \A class \in inText :
         \E alpha \in 0..100 : utility[class] = ReadableColor(content, surfaces, alpha)
  <2> TAKE class \in inText
  <2>1. PICK n \in Nat : n = class.alpha /\ n > 0
    OBVIOUS
  <2>2. PICK alpha \in 0..100 : alpha = Min({100, n}) /\ alpha > 0
    <3>1. Min({100, n}) = IF 100 <= n THEN 100 ELSE n
      BY MinOfTwo
    <3>2. \E alpha \in 0..100 : alpha = (IF 100 <= n THEN 100 ELSE n) /\ alpha > 0
      BY <2>1
    <3> QED
      BY <3>1, <3>2
  <2>3. utility[class] = UtilityColor(class, color, surfaces)
    BY <1>5
  <2>4. UtilityColor(class, color, surfaces) = ReadableColor(content, surfaces, alpha)
    BY <2>1, <2>2 DEF UtilityColor
  <2> QED
    BY <2>3, <2>4
<1>8. {Rounded(sheet.surfaces[i]) : i \in 1..3} = {Rounded(b) : b \in {p, q, r}}
  <2>1. {Rounded(surfaces[i]) : i \in 1..3} = {Rounded(b) : b \in {p, q, r}}
    <3>1. surfaces[1] = p /\ surfaces[2] = q /\ surfaces[3] = r
      OBVIOUS
    <3> HIDE DEF surfaces, p, q, r
    <3>2. {surfaces[i] : i \in 1..3} = {p, q, r}
      BY <3>1
    <3> QED
      BY <3>1
  <2> QED
    BY <1>5, <2>1
<1>9. sheet.surfaces[3] = r
  BY <1>5
<1>10. DOMAIN utility = classes
  BY <1>5
<1> DEFINE texts == {sheet.muted, sheet.content} \cup {utility[class] : class \in inText}
<1>11. TextsOnSurfaces(sheet) =
         (texts \X {Rounded(b) : b \in {p, q, r}})
         \cup {<<nav.foreground, Rounded(r)>>, <<nav.accent, Rounded(r)>>, <<nav.buttonText, nav.button>>}
  BY <1>8, <1>9, <1>10 DEF TextsOnSurfaces
<1>12. \A text \in texts : \E alpha \in 0..100 : text = ReadableColor(content, surfaces, alpha)
  <2>1. PICK a, b \in 0..100 : a = 80 /\ b = 100
    OBVIOUS
  <2> QED
    BY <1>5, <1>7, <2>1
<1> HIDE DEF texts, inText, utility, nav, sheet, accent
<1>13. \A text \in texts : \A b \in {p, q, r} : Readable(text, Rounded(b))
  <2> TAKE text \in texts
  <2>1. PICK alpha \in 0..100 : text = ReadableColor(content, surfaces, alpha)
    BY <1>12
  <2> QED
    BY <1>1, <1>3, <2>1, ReadableOnThree
<1>14. /\ Readable(nav.foreground, Rounded(r)) /\ Readable(nav.accent, Rounded(r))
       /\ Readable(nav.buttonText, nav.button)
  <2>1. PICK a, b \in 0..100 : a = 80 /\ b = 100
    OBVIOUS
  <2>2. Readable(ReadableColor(content, <<r>>, a), Rounded(r))
    BY <1>1, ReadableOnFew
  <2>3. Readable(ReadableColor(primary, <<r, accent>>, b), Rounded(r))
    BY <1>1, <1>4, ReadableOnFew
  <2>4. Readable(ReadableColor(color["primary-content"], <<primary>>, b), Rounded(primary))
    BY <1>1, ReadableOnFew
  <2> QED
    BY <1>6, <2>1, <2>2, <2>3, <2>4
<1>15. \A pair \in TextsOnSurfaces(sheet) : Readable(pair[1], pair[2])
  BY <1>11, <1>13, <1>14
<1> QED
  BY <1>15 DEF sheet

\* The style sheet is the sheet of the colours it was read from.
LEMMA SheetOfColors ==
    ASSUME styles.resolved \in Sources, styles.ruled \subseteq Utilities(Classes)
    PROVE  StyleSheet = Sheet(Colors(styles.resolved), styles.ruled)
<1> DEFINE color == Colors(styles.resolved)
           all == Utilities(Classes)
           surfaces == <<color["base-100"], color["base-200"], color["base-300"]>>
           rules == [class \in all |-> UtilityColor(class, color, surfaces)]
           body(utilities) ==
               [color |-> color, surfaces |-> surfaces,
                muted |-> ReadableColor(color["base-content"], surfaces, 80),
                content |-> ReadableColor(color["base-content"], surfaces, 100),
                navigation |-> NavigationColors(color, surfaces),
                connections |-> ConnectionColors(color), utilities |-> utilities]
           ruled == [class \in styles.ruled |-> UtilityColor(class, color, surfaces)]
<1>1. Sheet(color, all) = body(rules) /\ Sheet(color, styles.ruled) = body(ruled)
  BY DEF Sheet
<1>2. Sheets[styles.resolved] = Sheet(color, all)
  BY DEF Sheets, Classes
<1>3. [class \in styles.ruled |-> rules[class]] = ruled
  OBVIOUS
<1> HIDE DEF color, all, rules, ruled, surfaces
<1>4. StyleSheet = [body(rules) EXCEPT !.utilities = [class \in styles.ruled |-> rules[class]]]
  BY <1>1, <1>2 DEF StyleSheet
<1>5. [body(rules) EXCEPT !.utilities = ruled] = body(ruled)
  OBVIOUS
<1> QED
  BY <1>1, <1>3, <1>4, <1>5 DEF color

LEMMA InvariantReadable == CompatInvariant => ReadableText
<1> SUFFICES ASSUME CompatInvariant, styles.installed
             PROVE  /\ \A sheet \in {StyleSheet} : \A pair \in TextsOnSurfaces(sheet) :
                           pair[1].alpha = 100 /\ Contrast(pair[1], pair[2]) >= 450
                    /\ VisibleColors
  BY DEF ReadableText
<1> DEFINE color == Colors(styles.resolved)
<1>1. styles.resolved \in Sources /\ styles.ruled \subseteq Utilities(Classes)
  BY DEF CompatInvariant, SheetKept, StylesType, Closure
<1>2. StyleSheet = Sheet(color, styles.ruled)
  BY <1>1, SheetOfColors
<1>3. \A class \in styles.ruled : class.alpha \in Nat
  BY <1>1, CompatAssumption DEF Utilities, Classes
<1>4. GoodColors(color)
  BY <1>1, ColorsGood
<1> HIDE DEF color
<1>5. \A pair \in TextsOnSurfaces(StyleSheet) : Readable(pair[1], pair[2])
  BY <1>2, <1>3, <1>4, SheetReadable
<1>6. VisibleColors
  <2>1. StyleSheet.color = color
    BY <1>2 DEF Sheet
  <2>2. \A v \in Variables : Usable(color[v]) /\ ~IsSentinel(color[v])
    BY <1>4, ShadeUsable DEF GoodColors, Visible
  <2> QED
    BY <2>1, <2>2 DEF VisibleColors
<1> QED
  BY <1>5, <1>6 DEF Readable

\* ReadableText: under any engine and any style sheet of dark or light themes, text
\* in the colour of the content (muted, links, slash-opacity utilities of
\* base-content), the selected link and the round button can be read on every
\* surface they may stand on, and no colour of the theme is transparent or the probe's own: white, black and the steps towards them do for
\* all surfaces at once, rounding to 8 bits included.
THEOREM ReadableCorrect == Spec => []ReadableText
BY CompatCorrect, InvariantReadable, PTL
=============================================================================
