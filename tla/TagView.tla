------------------------------- MODULE TagView -------------------------------
(***************************************************************************)
(* The view of one dwm-dunc monitor and the settings that go with it       *)
(* (dwm.c, PATCH_PERTAG).  A monitor has two tag masks, tagset[0] and [1]; *)
(* seltags says which one is in view.  Its pertag keeps the settings of    *)
(* every tag, entry 0 those of the view of all tags; curtag is the tag     *)
(* whose settings apply.  Everything else reads not pertag but the         *)
(* monitor's own copy of the settings, here applied: m->nmaster, m->mfact, *)
(* m->lt, ... .  Commands change both, view and toggleview load the one    *)
(* from the other.                                                         *)
(***************************************************************************)
EXTENDS Integers

CONSTANTS
    NTags,         \* LENGTH(tags)
    NLayouts,      \* the layouts of the table, without its NULL entry
    NoArrange,     \* those without an arrange function
    Configs,       \* the per-tag settings the configuration may give
    ViewMasks,     \* bound: the masks of view
    ToggleMasks,   \* bound: the masks of toggleview
    MFactArgs,     \* bound: the arguments of setmfact, in hundredths
    MaxNMaster,    \* bound: incnmaster stops here
    MaxChanges     \* bound: the number of commands that change settings

Tag == 1..NTags
Mask == SUBSET Tag
Layout == 1..NLayouts

\* One entry of pertag; mfact and its default are in hundredths.
Settings ==
    [nmaster : Nat, mfact : Int, mfact_def : Int,
     sellt : {0, 1}, lt : [{0, 1} -> Layout],
     showbar : BOOLEAN, class_stacking : BOOLEAN, cursorautohide : BOOLEAN]

ASSUME TagsAssumption == NTags \in Nat \ {0}
ASSUME LayoutsAssumption == NLayouts \in Nat \ {0} /\ NoArrange \subseteq Layout
ASSUME MasksAssumption == ViewMasks \subseteq Mask /\ ToggleMasks \subseteq Mask
ASSUME ConfigAssumption == Configs \subseteq [0..NTags -> Settings]
ASSUME ArgsAssumption == MFactArgs \subseteq Int
ASSUME BoundsAssumption == MaxNMaster \in Nat /\ MaxChanges \in Nat

VARIABLES seltags, tagset, curtag, prevtag, pertag, applied, changes

views == <<seltags, tagset, curtag, prevtag>>
vars == <<seltags, tagset, curtag, prevtag, pertag, applied, changes>>

\* createmon and parsemon: tag 1 is in view in both slots.
Init ==
    /\ seltags = 0
    /\ tagset = [i \in {0, 1} |-> {1}]
    /\ curtag = 1
    /\ prevtag = 1
    /\ pertag \in Configs
    /\ applied = pertag[1]
    /\ changes = 0

-----------------------------------------------------------------------------
\* The lowest tag of a non-empty mask.
LowestTag(mask) == CHOOSE t \in mask : \A u \in mask : t <= u

\* Mutant: the number of masters in force stays.
LoadNoMaster(t, class_stacking) ==
    /\ pertag' = pertag
    /\ applied' = [pertag[t] EXCEPT !.nmaster = applied.nmaster,
                                    !.class_stacking = class_stacking,
                                    !.cursorautohide = applied.cursorautohide]

\* The settings of tag t come into force, class_stacking as the caller has it,
\* cursorautohide not at all; a bar that is not as t has it is toggled by
\* togglebarex, which also records it.
Load(t, class_stacking) ==
    LET toggle == applied.showbar # pertag[t].showbar
        showbar == IF toggle THEN ~applied.showbar ELSE applied.showbar
    IN  /\ pertag' = IF toggle THEN [pertag EXCEPT ![t].showbar = showbar] ELSE pertag
        /\ applied' = [pertag[t] EXCEPT !.showbar = showbar,
                                        !.class_stacking = class_stacking,
                                        !.cursorautohide = applied.cursorautohide]

\* Mutant: the mask is stored before the slots are changed over.
ViewMonTagStoredFirst(mask, all) ==
    /\ mask # tagset[seltags]
    /\ seltags' = 1 - seltags
    /\ tagset' = IF mask = {} THEN tagset ELSE [tagset EXCEPT ![seltags] = mask]
    /\ prevtag' = curtag
    /\ curtag' = IF mask = {} THEN prevtag ELSE IF all THEN 0 ELSE LowestTag(mask)
    /\ Load(curtag', pertag[curtag'].class_stacking)

\* viewmontag; all: the mask was ~0.
ViewMonTag(mask, all) ==
    /\ mask # tagset[seltags]
    /\ seltags' = 1 - seltags
    /\ tagset' = IF mask = {} THEN tagset ELSE [tagset EXCEPT ![1 - seltags] = mask]
    /\ prevtag' = curtag
    /\ curtag' = IF mask = {} THEN prevtag ELSE IF all THEN 0 ELSE LowestTag(mask)
    /\ Load(curtag', pertag[curtag'].class_stacking)

\* toggleviewex. The view of all tags has no tag of its own here: the mask is
\* cut to TAGMASK before it is compared with ~0. With curtag 0 the shift that
\* tests the tag is by -1, and finds no tag in view.
ToggleViewEx(mask) ==
    LET cur == tagset[seltags]
        toggled == (cur \ mask) \cup (mask \ cur)
        stays == curtag \in toggled
    IN  /\ toggled # {}
        /\ tagset' = [tagset EXCEPT ![seltags] = toggled]
        /\ prevtag' = IF stays THEN prevtag ELSE curtag
        /\ curtag' = IF stays THEN curtag ELSE LowestTag(toggled)
        /\ Load(curtag', applied.class_stacking)
        /\ UNCHANGED seltags

View ==
    /\ \E mask \in ViewMasks : \E all \in BOOLEAN :
          /\ all => mask = Tag
          /\ ViewMonTag(mask, all)
    /\ UNCHANGED changes

ToggleView ==
    /\ \E mask \in ToggleMasks : ToggleViewEx(mask)
    /\ UNCHANGED changes

-----------------------------------------------------------------------------
(* The commands that change a setting of the current tag.                  *)

\* Mutant: the tag that was in view before gets the setting.
SetOnPrevtag(stored, now) ==
    /\ pertag' = [pertag EXCEPT ![prevtag] = stored]
    /\ applied' = now

\* A setting in force and the one stored for curtag are changed together.
Set(stored, now) ==
    /\ pertag' = [pertag EXCEPT ![curtag] = stored]
    /\ applied' = now

\* incnmaster
IncNMaster ==
    \E i \in {-1, 1} :
        LET n == IF applied.nmaster + i < 0 THEN 0 ELSE applied.nmaster + i
        IN  /\ n <= MaxNMaster
            /\ Set([pertag[curtag] EXCEPT !.nmaster = n], [applied EXCEPT !.nmaster = n])

\* The remainder of C, with the sign of x.
Remainder(x, n) == IF x >= 0 THEN x % n ELSE -((-x) % n)

\* setmfact: 0 is the default, 1.0 and more set it, others are a step to the
\* next multiple of the argument.
MFactOf(arg) ==
    LET x == applied.mfact + arg
        size == IF arg < 0 THEN -arg ELSE arg
        r == Remainder(x, size)
    IN  IF arg = 0 THEN applied.mfact_def
        ELSE IF arg >= 100 THEN arg - 100
        ELSE IF r = 0 THEN x
        ELSE IF arg > 0 THEN x - r
        ELSE x + size - r

SetMFact ==
    \E arg \in MFactArgs :
        LET f == MFactOf(arg)
        IN  /\ applied.lt[applied.sellt] \notin NoArrange
            /\ f \in 5..95
            /\ Set([pertag[curtag] EXCEPT !.mfact = f], [applied EXCEPT !.mfact = f])

\* cyclelayout: the neighbour in the table replaces the selected layout.
CycleLayout ==
    LET l == applied.lt[applied.sellt]
    IN  \E v \in {IF l = NLayouts THEN 1 ELSE l + 1, IF l = 1 THEN NLayouts ELSE l - 1} :
           Set([pertag[curtag] EXCEPT !.lt[applied.sellt] = v],
               [applied EXCEPT !.lt[applied.sellt] = v])

\* setlayout: without a layout the two change places; another one than the
\* selected takes the place of the one that was selected before that.
SetLayout ==
    LET sellt == 1 - pertag[curtag].sellt
        stored == [pertag[curtag] EXCEPT !.sellt = sellt]
        now == [applied EXCEPT !.sellt = sellt]
    IN  \/ Set(stored, now)
        \/ \E v \in Layout \ {applied.lt[applied.sellt]} :
              Set([stored EXCEPT !.lt[sellt] = v], [now EXCEPT !.lt[sellt] = v])

\* togglebar
ToggleBar ==
    Set([pertag[curtag] EXCEPT !.showbar = ~applied.showbar],
        [applied EXCEPT !.showbar = ~applied.showbar])

\* togglestacking: each is inverted, neither is copied from the other.
ToggleStacking ==
    Set([pertag[curtag] EXCEPT !.class_stacking = ~@], [applied EXCEPT !.class_stacking = ~@])

Change ==
    /\ changes < MaxChanges
    /\ changes' = changes + 1
    /\ \/ IncNMaster \/ SetMFact \/ ToggleBar \/ ToggleStacking
       \/ CycleLayout \/ SetLayout
    /\ UNCHANGED views

Next == View \/ ToggleView \/ Change

Spec == Init /\ [][Next]_vars

-----------------------------------------------------------------------------
(* Properties.                                                             *)

TypeOK ==
    /\ seltags \in {0, 1}
    /\ tagset \in [{0, 1} -> Mask \ {{}}]
    /\ curtag \in 0..NTags
    /\ prevtag \in 0..NTags
    /\ pertag \in [0..NTags -> Settings]
    /\ applied \in Settings
    /\ changes \in 0..MaxChanges

\* What is in force is what is stored for curtag, after any commands: the
\* copies that arrange and the bar read never lag behind pertag. toggleview
\* does not load class_stacking, and nothing loads cursorautohide; see below.
AppliedFresh ==
    applied = [pertag[curtag] EXCEPT !.class_stacking = applied.class_stacking,
                                     !.cursorautohide = applied.cursorautohide]

\* The stored settings of a tag change only by a command given while they are
\* in force; going from view to view changes none, though it toggles the bar.
OthersKept ==
    [][ \A t \in 0..NTags : pertag'[t] # pertag[t] => t = curtag /\ UNCHANGED views ]_vars

\* The monitor implements the view of Views, and so the one of Handlers.
Implemented ==
    INSTANCE Views WITH Start <- {1}, cur <- tagset[seltags], alt <- tagset[1 - seltags]
ImplementsViews == Implemented!Spec

\* The settings in force are those of a tag in view: curtag is the "current
\* tag" (dwm.c:2303). With toggleview this is not so.
CurInView == curtag \in tagset[seltags] \/ (curtag = 0 /\ tagset[seltags] = Tag)

\* toggleviewex says it will "apply settings for this view" (dwm.c:22925):
\* class_stacking is the one stored for the current tag.
StackingApplied == applied.class_stacking = pertag[curtag].class_stacking
=============================================================================
