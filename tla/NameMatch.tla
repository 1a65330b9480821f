------------------------------ MODULE NameMatch ------------------------------
(* How the driver's handlers recognise what they protect: the name           *)
(* comparisons of driver/regcb.c, minifilter.c, procnotify.c and             *)
(* obcallback.c.  A name is a sequence of characters; the comparisons ignore *)
(* case, so a character stands for both of its cases.                        *)
EXTENDS Naturals, Sequences

CONSTANTS
    Char,               \* characters
    CurrentControlSet,  \* a key that is a symbolic link,
    ControlSet,         \* and the key it leads to since the last boot
    gProtectedPrefixes, \* keys, regcb.c
    gProtectedSuffixes, \* paths, minifilter.c
    gBlocked,           \* images that may not be started, procnotify.c
    ProtectedImages,    \* images of protected processes, obcallback.c
    Wildcards           \* procexp*.exe and pchunter*.exe, see IsDocumentedImage

\* Images are listed by their base name.
ASSUME NameMatchAssumption ==
    /\ gProtectedPrefixes \subseteq Seq(Char) /\ gProtectedSuffixes \subseteq Seq(Char)
    /\ CurrentControlSet \in Seq(Char) /\ ControlSet \in Seq(Char)
    /\ gBlocked \subseteq Seq(Char) /\ ProtectedImages \subseteq Seq(Char)
    /\ \A n \in gBlocked : \A k \in 1 .. Len(n) : n[k] \notin {"\\", "/"}
    /\ \A n \in ProtectedImages : \A k \in 1 .. Len(n) : n[k] # "\\"

\* The Length characters of a UNICODE_STRING that begin after the first off.
Part(name, off, length) == SubSeq(name, off + 1, off + length)

\* The path leads through a key, or to it.
LeadsThrough(path, key) ==
    /\ Len(path) >= Len(key) /\ Part(path, 0, Len(key)) = key
    /\ Len(path) = Len(key) \/ path[Len(key) + 1] = "\\"

\* LgResolveKeyName of the key object that was opened by path: the object's name is
\* that of the key itself, after the symbolic link was followed.
LgResolveKeyName(path) ==
    IF LeadsThrough(path, CurrentControlSet)
    THEN ControlSet \o Part(path, Len(CurrentControlSet), Len(path) - Len(CurrentControlSet))
    ELSE path

\* LgKeyNameMatchesAny: the head of the name is one of the prefixes.
LgKeyNameMatchesAny(name) ==
    \E pfx \in gProtectedPrefixes :
        Len(name) >= Len(pfx) /\ Part(name, 0, Len(pfx)) = pfx

\* Mutant: off < lastStart for off <= lastStart.
StartsShort(name, needle) == 0 .. Len(name) - Len(needle) - 1

\* Where LgPathMatches lays the needle, when it is not longer than the name.
Starts(name, needle) == 0 .. Len(name) - Len(needle)

\* LgPathMatches: some stretch of the name is one of the suffixes.
LgPathMatches(name) ==
    \E needle \in gProtectedSuffixes :
        /\ Len(name) >= Len(needle)
        /\ \E off \in Starts(name, needle) : Part(name, off, Len(needle)) = needle

\* The walk back from the end of a path: the number of characters up to and with
\* the last separator.
BaseStart(path, separators) ==
    CHOOSE i \in 0 .. Len(path) :
        /\ i = 0 \/ path[i] \in separators
        /\ \A j \in i + 1 .. Len(path) : path[j] \notin separators

\* LgBasename and the beginning of LgPidIsProtected.
Basename(path, separators) ==
    Part(path, BaseStart(path, separators), Len(path) - BaseStart(path, separators))

\* LgIsBlocked and the end of LgPidIsProtected.
OneOf(base, names) ==
    \E n \in names : Len(base) = Len(n) /\ Part(base, 0, Len(n)) = n

LgIsBlocked(path) == OneOf(Basename(path, {"\\", "/"}), gBlocked)

LgPidIsProtected(image) == OneOf(Basename(image, {"\\"}), ProtectedImages)

-----------------------------------------------------------------------------
\* What the comparisons are for, character by character.

\* n occurs in name after the first off characters.
OccursAt(n, name, off) ==
    /\ off + Len(n) <= Len(name)
    /\ \A k \in 1 .. Len(n) : name[off + k] = n[k]

\* The last component of path is n.
EndsIn(path, n, separators) ==
    /\ Len(n) <= Len(path)
    /\ OccursAt(n, path, Len(path) - Len(n))
    /\ Len(n) = Len(path) \/ path[Len(path) - Len(n)] \in separators

\* What the lists name: the names as the driver gets them.
IsProtectedKey(name) == \E p \in gProtectedPrefixes : OccursAt(p, name, 0)

IsProtectedPath(name) ==
    \E n \in gProtectedSuffixes : \E off \in 0 .. Len(name) : OccursAt(n, name, off)

IsBlockedImage(path) == \E n \in gBlocked : EndsIn(path, n, {"\\", "/"})

IsProtectedImage(path) == \E n \in ProtectedImages : EndsIn(path, n, {"\\"})

-----------------------------------------------------------------------------
\* What the comments name, where that is more than the lists find.

\* regcb.c 4-12 speaks of keys, not of names: a key of the list, or below one, is the
\* same key whichever of its names it was opened by.
IsDocumentedKey(path) ==
    \E p \in gProtectedPrefixes : OccursAt(LgResolveKeyName(p), LgResolveKeyName(path), 0)

\* The last component of path begins with w.head and ends with w.tail.
Fits(path, w, separators) ==
    \E off \in 0 .. Len(path) - Len(w.head) - Len(w.tail) :
        /\ off = 0 \/ path[off] \in separators
        /\ \A j \in off + 1 .. Len(path) : path[j] \notin separators
        /\ OccursAt(w.head, path, off)
        /\ OccursAt(w.tail, path, Len(path) - Len(w.tail))

\* procnotify.c 5 and Plan.md 148 name images by a pattern, and line 13 of the former
\* says that wildcards are handled.
IsDocumentedImage(path) ==
    IsBlockedImage(path) \/ \E w \in Wildcards : Fits(path, w, {"\\", "/"})
=============================================================================
