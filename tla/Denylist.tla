------------------------------ MODULE Denylist ------------------------------
(***************************************************************************)
(* The denylist of compromised tokens: loading of its file at start        *)
(* (internal/platform/denylist/denylist.go) and the middleware that looks  *)
(* requests up in it (internal/mid/denylist.go).                           *)
(*                                                                         *)
(* The file is scanned twice: New counts its non-empty lines to size the   *)
(* cache, then reads them again to fill it.  A line is what matters of it: *)
(* EmptyLine, or a non-empty line with the key TrimSpace leaves of it,     *)
(* which is "" when the line consists of spaces.  The length of the keys   *)
(* and the cache's own eviction (ristretto) are left out: a key the cache  *)
(* accepts stays, as the sizing of maxCost intends.                        *)
(***************************************************************************)
EXTENDS Naturals, Sequences, FiniteSets, SequencesExt

CONSTANTS
    Tokens,      \* tokens; none is the empty string
    MaxLines,    \* bound: lines of the file
    Parts        \* steps in which progress is logged; the code has 10

ASSUME DenylistAssumption == MaxLines \in Nat /\ Parts \in Nat \ {0}

Keys == Tokens \cup {""}
EmptyLine == [entry |-> FALSE, key |-> ""]
Lines == {EmptyLine} \cup [entry : {TRUE}, key : Keys]
Files == BoundedSeq(Lines, MaxLines)

Configs == [file : BOOLEAN, cookie : BOOLEAN, header : BOOLEAN, trim : BOOLEAN]

\* A header value: the token with or without the prefix "Bearer ".
HeaderValues == [bearer : BOOLEAN, token : Keys]
Requests == [cookie : Keys, header : HeaderValues]
NoRequest == [cookie |-> "", header |-> [bearer |-> FALSE, token |-> ""]]

VARIABLES
    cfg,             \* which of the settings are given
    file,            \* the lines of the denylist file
    phase,           \* "count", "load", "ready", "failed" or "panicked"
    pos,             \* lines scanned in the current pass
    totalEntries,
    numOfElements,
    cache,           \* keys in the cache
    refused,         \* keys the cache did not accept; logged as errors
    request,         \* the request looked up last
    verdict          \* what the middleware did with it

vars == <<cfg, file, phase, pos, totalEntries, numOfElements, cache, refused, request, verdict>>

Init ==
    /\ cfg \in Configs
    /\ file \in Files
    /\ phase = IF cfg.file THEN "count" ELSE "ready"
    /\ pos = 0 /\ totalEntries = 0 /\ numOfElements = 0
    /\ cache = {} /\ refused = {}
    /\ request = NoRequest /\ verdict = "none"

-----------------------------------------------------------------------------
(* New *)

CountLine ==
    /\ phase = "count" /\ pos < Len(file)
    /\ totalEntries' = totalEntries + (IF file[pos + 1].entry THEN 1 ELSE 0)
    /\ pos' = pos + 1
    /\ UNCHANGED <<cfg, file, phase, numOfElements, cache, refused, request, verdict>>

\* Mutant: the file is not rewound.
NewCache_NoRewind ==
    /\ phase = "count" /\ pos = Len(file)
    /\ pos' = pos
    /\ phase' = IF totalEntries = 0 THEN "failed" ELSE "load"
    /\ UNCHANGED <<cfg, file, totalEntries, numOfElements, cache, refused, request, verdict>>

\* The end of the first pass; the file is rewound.  The cache has no room when no
\* line has a byte, and NewCache refuses that size.
NewCache ==
    /\ phase = "count" /\ pos = Len(file)
    /\ pos' = 0
    /\ phase' = IF totalEntries = 0 THEN "failed" ELSE "load"
    /\ UNCHANGED <<cfg, file, totalEntries, numOfElements, cache, refused, request, verdict>>

\* The file cannot be opened, read or rewound.
FileError ==
    /\ phase \in {"count", "load"}
    /\ phase' = "failed"
    /\ UNCHANGED <<cfg, file, pos, totalEntries, numOfElements, cache, refused, request, verdict>>

LoadEmpty ==
    /\ phase = "load" /\ pos < Len(file) /\ ~file[pos + 1].entry
    /\ pos' = pos + 1
    /\ UNCHANGED <<cfg, file, phase, totalEntries, numOfElements, cache, refused, request, verdict>>

\* Set accepts the key.  numOfElements % totalEntries10P: the divisor is 0, and the
\* goroutine of main panics, when the file has fewer entries than Parts.
LoadEntry ==
    /\ phase = "load" /\ pos < Len(file) /\ file[pos + 1].entry
    /\ cache' = cache \cup {file[pos + 1].key}
    /\ numOfElements' = numOfElements + 1
    /\ phase' = IF totalEntries \div Parts = 0 THEN "panicked" ELSE phase
    /\ pos' = pos + 1
    /\ UNCHANGED <<cfg, file, totalEntries, refused, request, verdict>>

\* Set refuses the key, which is logged.
LoadRefused ==
    /\ phase = "load" /\ pos < Len(file) /\ file[pos + 1].entry
    /\ refused' = refused \cup {file[pos + 1].key}
    /\ pos' = pos + 1
    /\ UNCHANGED <<cfg, file, phase, totalEntries, numOfElements, cache, request, verdict>>

LoadEnd ==
    /\ phase = "load" /\ pos = Len(file)
    /\ phase' = "ready"
    /\ UNCHANGED <<cfg, file, pos, totalEntries, numOfElements, cache, refused, request, verdict>>

-----------------------------------------------------------------------------
(* The middleware *)

\* Mutant: the prefix is trimmed whatever the setting.
Found_TrimAlways(r) ==
    \/ cfg.cookie /\ r.cookie \in cache
    \/ cfg.header /\ r.header.token \in cache

\* The cookie is looked up, then the header: missing ones as "".  A prefix that is
\* not trimmed makes another string of the token than the file has.
Found(r) ==
    \/ cfg.cookie /\ r.cookie \in cache
    \/ cfg.header /\ (cfg.trim \/ ~r.header.bearer) /\ r.header.token \in cache

\* A request passes the middleware; without a file deniedTokens is nil.
Lookup ==
    /\ phase = "ready"
    /\ \E r \in Requests :
          /\ request' = r
          /\ verdict' = IF cfg.file /\ totalEntries > 0 /\ Found(r) THEN "blocked" ELSE "passed"
    /\ UNCHANGED <<cfg, file, phase, pos, totalEntries, numOfElements, cache, refused>>

Next ==
    \/ CountLine \/ NewCache \/ FileError
    \/ LoadEmpty \/ LoadEntry \/ LoadRefused \/ LoadEnd
    \/ Lookup

Spec == Init /\ [][Next]_vars

-----------------------------------------------------------------------------
(* Properties *)

TypeOK ==
    /\ cfg \in Configs
    /\ file \in Seq(Lines)
    /\ phase \in {"count", "load", "ready", "failed", "panicked"}
    /\ pos \in 0..Len(file)
    /\ totalEntries \in 0..Len(file) /\ numOfElements \in 0..totalEntries
    /\ cache \subseteq Keys /\ refused \subseteq Keys
    /\ request \in Requests
    /\ verdict \in {"none", "passed", "blocked"}

\* The keys of the file's non-empty lines.
Listed == {file[i].key : i \in {j \in DOMAIN file : file[j].entry}}

\* What a request shows in the places the settings name.
Shown(r) ==
    (IF cfg.cookie THEN {r.cookie} ELSE {}) \cup
    (IF cfg.header /\ (cfg.trim \/ ~r.header.bearer) THEN {r.header.token} ELSE {})

\* A request that shows a listed token, in either place, is blocked, whichever line
\* of the file the token is on; only a key whose refusal was logged may be missing.
ListedIsBlocked ==
    verdict = "passed" /\ cfg.file => Shown(request) \cap Listed \subseteq refused

\* No other request is blocked.
BlockedOnlyIfListed ==
    verdict = "blocked" => cfg.file /\ Shown(request) \cap Listed # {}

-----------------------------------------------------------------------------
(* What the documentation says, and the code does not do *)

\* docker-container.md shows a denylist file of three tokens; New panics with less
\* than ten.
SmallListLoads == phase # "panicked"

=============================================================================
