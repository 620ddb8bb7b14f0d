--------------------------- MODULE EnrichmentProofs ---------------------------
(* What the enrichment service guarantees for any number of lookups, jobs,   *)
(* providers, people and files, whatever calls fail: see Enrichment.         *)
EXTENDS Enrichment, SequenceTheorems, FiniteSetTheorems, TLAPS

-----------------------------------------------------------------------------
(* A candidate that is normalised again: Candidates.                         *)

Words == STRING \ {" "}

\* Trimming gives words, and a second time it changes nothing.
LEMMA TrimFacts ==
    /\ \A t : trim(t) # Blank /\ trim(trim(t)) = trim(t)
    /\ \A t \in Text : trim(t) \in Seq(Words)
    /\ \A t \in Seq(Words) : t \in Text /\ trim(t) = t
<1>1. Blank # Missing
  BY DEF Blank, Missing
<1>2. Missing \in Seq(Words)
  BY DEF Missing
<1>3. Blank \notin Seq(Words)
  <2> SUFFICES ASSUME Blank \in Seq(Words) PROVE FALSE
    OBVIOUS
  <2>1. Len(Blank) = 1
    BY DEF Blank
  <2>2. Blank[1] = " "
    BY DEF Blank
  <2>3. 1 \in 1..Len(Blank) BY <2>1
  <2>4. Blank[1] \in Words
    <3>1. \A S, s, i : s \in Seq(S) /\ i \in 1..Len(s) => s[i] \in S
      BY ElementOfSeq
    <3> HIDE DEF Words, Blank
    <3> QED BY <2>3, <3>1
  <2> QED BY <2>2, <2>4 DEF Words
<1> QED BY <1>1, <1>2, <1>3 DEF trim, Text, Words

\* The first word and the rest.
LEMMA SplitFacts ==
    /\ splitName(Missing) = [first |-> Missing, last |-> Missing]
    /\ \A t \in Seq(Words) : t # Missing =>
          /\ splitName(t).first = <<Head(t)>> /\ splitName(t).last = Tail(t)
          /\ <<Head(t)>> \in Seq(Words) /\ Tail(t) \in Seq(Words)
          /\ <<Head(t)>> # Missing
    /\ \A t \in Text : splitName(t).first \in Seq(Words)
                       /\ splitName(t).last \in Seq(Words)
<1>1. Missing \in Seq(Words) /\ trim(Missing) = Missing
  <2>1. Missing \in Seq(Words) BY DEF Missing
  <2> QED BY <2>1, TrimFacts
<1>2. splitName(Missing) = [first |-> Missing, last |-> Missing]
  BY <1>1 DEF splitName
<1>3. ASSUME NEW t \in Seq(Words), t # Missing
      PROVE  /\ splitName(t).first = <<Head(t)>> /\ splitName(t).last = Tail(t)
             /\ <<Head(t)>> \in Seq(Words) /\ Tail(t) \in Seq(Words)
             /\ <<Head(t)>> # Missing
  <2>1. trim(t) = t BY TrimFacts
  <2>2. Head(t) \in Words /\ Tail(t) \in Seq(Words)
    BY <1>3, HeadTailProperties DEF Missing
  <2>3. splitName(t) = [first |-> <<Head(t)>>, last |-> Tail(t)]
    BY <2>1, <1>3 DEF splitName
  <2>4. <<Head(t)>> \in Seq(Words) BY <2>2
  <2>5. <<Head(t)>> # Missing BY DEF Missing
  <2> QED BY <2>2, <2>3, <2>4, <2>5
<1>4. ASSUME NEW t \in Text
      PROVE  splitName(t).first \in Seq(Words) /\ splitName(t).last \in Seq(Words)
  <2>1. trim(t) \in Seq(Words) /\ trim(trim(t)) = trim(t) BY TrimFacts
  <2>2. splitName(t) = splitName(trim(t)) BY <2>1 DEF splitName
  <2>3. CASE trim(t) = Missing BY <2>2, <2>3, <1>1, <1>2
  <2>4. CASE trim(t) # Missing BY <2>1, <2>2, <2>4, <1>3
  <2> QED BY <2>3, <2>4
<1> QED BY <1>2, <1>3, <1>4

\* What normalising does to a URL: one slash less, until there is none.
LEMMA UrlFacts ==
    ASSUME NEW u \in Url
    PROVE  /\ normalizeLinkedInUrl(u) \in Url
           /\ normalizeLinkedInUrl(u).slug = u.slug
           /\ normalizeLinkedInUrl(u) = NoUrl <=> u = NoUrl
           /\ normalizeLinkedInUrl(u).slashes <= u.slashes
           /\ u.slashes > 0 =>
                 \/ normalizeLinkedInUrl(u).slashes < u.slashes
                 \/ normalizeLinkedInUrl(u) = u
           /\ normalizeLinkedInUrl(u).slashes = 0 =>
                 normalizeLinkedInUrl(normalizeLinkedInUrl(u)) = normalizeLinkedInUrl(u)
<1>1. CASE u.form \in {"http", "bare"}
  <2>1. normalizeLinkedInUrl(u) =
           [form |-> "http", slashes |-> IF u.slashes > 0 THEN u.slashes - 1 ELSE 0,
            slug |-> u.slug]
    BY <1>1 DEF normalizeLinkedInUrl, Url
  <2>2. normalizeLinkedInUrl(u) \in Url BY <2>1 DEF Url
  <2>3. normalizeLinkedInUrl(u) # NoUrl /\ u # NoUrl
    BY <2>1, <1>1 DEF NoUrl
  <2>4. normalizeLinkedInUrl(u).slug = u.slug /\ u.slashes \in Nat
    BY <2>1 DEF Url
  <2>5. normalizeLinkedInUrl(u).slashes = 0 =>
           normalizeLinkedInUrl(normalizeLinkedInUrl(u)) = normalizeLinkedInUrl(u)
    <3> SUFFICES ASSUME normalizeLinkedInUrl(u).slashes = 0
                 PROVE  normalizeLinkedInUrl(normalizeLinkedInUrl(u))
                           = normalizeLinkedInUrl(u)
      OBVIOUS
    <3>1. normalizeLinkedInUrl(u) = [form |-> "http", slashes |-> 0, slug |-> u.slug]
      BY <2>1
    <3>2. ASSUME NEW v \in Url, v.form = "http", v.slashes = 0
          PROVE  normalizeLinkedInUrl(v) = v
      <4>1. normalizeLinkedInUrl(v) = [form |-> "http", slashes |-> 0, slug |-> v.slug]
        BY <3>2 DEF normalizeLinkedInUrl, Url
      <4> QED BY <4>1, <3>2 DEF Url
    <3>3. normalizeLinkedInUrl(u).form = "http" BY <3>1
    <3> QED BY <2>2, <3>2, <3>3
  <2> QED BY <2>1, <2>2, <2>3, <2>4, <2>5
<1>2. CASE u.form \notin {"http", "bare"}
  BY <1>2 DEF normalizeLinkedInUrl, Url
<1> QED BY <1>1, <1>2

\* Normalising twice takes away one slash, three times two.
LEMMA UrlSettles ==
    ASSUME NEW u \in Url
    PROVE  LET once == normalizeLinkedInUrl(u)
               twice == normalizeLinkedInUrl(once)
           IN  /\ u.slashes <= 1 => twice = once
               /\ u.slashes <= 2 => normalizeLinkedInUrl(twice) = twice
<1> DEFINE once == normalizeLinkedInUrl(u)
           twice == normalizeLinkedInUrl(once)
<1>1. \A v \in Url : v.slashes \in Nat BY DEF Url
<1>2. once \in Url /\ twice \in Url BY UrlFacts
<1> DEFINE thrice == normalizeLinkedInUrl(twice)
<1>3. /\ once.slashes <= u.slashes
      /\ u.slashes > 0 => once.slashes < u.slashes \/ once = u
      /\ once.slashes = 0 => twice = once
  BY UrlFacts
<1>4. /\ twice.slashes <= once.slashes
      /\ once.slashes > 0 => twice.slashes < once.slashes \/ twice = once
      /\ twice.slashes = 0 => thrice = twice
  BY <1>2, UrlFacts
<1>5. once = u => twice = once
  OBVIOUS
<1>6. twice = once => thrice = twice
  OBVIOUS
<1>7. u.slashes \in Nat /\ once.slashes \in Nat /\ twice.slashes \in Nat
  BY <1>1, <1>2
<1> HIDE DEF once, twice, thrice
<1>8. (u.slashes <= 1 => twice = once) /\ (u.slashes <= 2 => thrice = twice)
  BY <1>3, <1>4, <1>5, <1>6, <1>7
<1> QED BY <1>8 DEF once, twice, thrice

\* The names of a candidate, before and after they are trimmed.
FirstOf(c) == Or(c.first, Or(splitName(c.full).first, splitName(c.url.slug).first))
LastOf(c) == Or(c.last, Or(splitName(c.full).last, splitName(c.url.slug).last))

\* The fields of a normalised candidate.
LEMMA NormalFields ==
    ASSUME NEW c, c.url \in Url
    PROVE  /\ normalizeCandidate(c) =
                 [first |-> trim(FirstOf(c)), last |-> trim(LastOf(c)), gap |-> FALSE,
                  full |-> join(trim(FirstOf(c)), trim(LastOf(c)), c.gap),
                  company |-> trim(c.company),
                  domain |-> trim(Or(c.domain, guessDomainFromCompany(c.company))),
                  url |-> normalizeLinkedInUrl(c.url)]
  BY UrlFacts DEF normalizeCandidate, parseNameFromLinkedInUrl, FirstOf, LastOf

\* A candidate all of whose texts have been trimmed.
Trimmed(c) ==
    /\ c.first \in Seq(Words) /\ c.last \in Seq(Words)
    /\ c.gap = FALSE
    /\ Missing \in {c.first, c.last} => c.full = c.first \o c.last
    /\ c.url \in Url
    /\ trim(c.company) = c.company

\* Names are texts, whatever they are taken from.
LEMMA NamesAreTexts ==
    ASSUME NEW c, c \in Person \/ Trimmed(c)
    PROVE  FirstOf(c) \in Text /\ LastOf(c) \in Text
<1>1. Seq(Words) \subseteq Text BY DEF Text, Words
<1>2. c.url \in Url BY DEF Person, Trimmed
<1>3. c.url.slug \in Text BY <1>2 DEF Url
<1>4. /\ splitName(c.url.slug).first \in Text
      /\ splitName(c.url.slug).last \in Text
  BY <1>1, <1>3, SplitFacts
<1>5. CASE c \in Person
  <2>1. c.first \in Text /\ c.last \in Text /\ c.full \in Text
    BY <1>5 DEF Person
  <2>2. splitName(c.full).first \in Text /\ splitName(c.full).last \in Text
    BY <1>1, <2>1, SplitFacts
  <2> QED BY <1>4, <2>1, <2>2 DEF FirstOf, LastOf, Or
<1>6. CASE Trimmed(c)
  <2>1. c.first \in Text /\ c.last \in Text BY <1>1, <1>6 DEF Trimmed
  <2>2. CASE Missing \in {c.first, c.last}
    <3>1. c.full \in Seq(Words) BY <1>6, <2>2, ConcatProperties DEF Trimmed
    <3>2. splitName(c.full).first \in Text /\ splitName(c.full).last \in Text
      BY <1>1, <3>1, SplitFacts
    <3> QED BY <1>4, <2>1, <3>2 DEF FirstOf, LastOf, Or
  <2>3. CASE Missing \notin {c.first, c.last}
    BY <2>1, <2>3 DEF FirstOf, LastOf, Or
  <2> QED BY <2>2, <2>3
<1> QED BY <1>5, <1>6

\* What a normalised candidate is, and what it has in common with its source.
LEMMA NormalFacts ==
    ASSUME NEW c, c \in Person \/ Trimmed(c)
    PROVE  /\ Trimmed(normalizeCandidate(c))
           /\ ~c.gap => normalizeCandidate(c).full
                 = normalizeCandidate(c).first \o normalizeCandidate(c).last
           /\ guessDomainFromCompany(normalizeCandidate(c).company)
                 = guessDomainFromCompany(c.company)
           /\ normalizeCandidate(c).url.slug = c.url.slug
<1> DEFINE n == normalizeCandidate(c)
<1>1. c.url \in Url BY DEF Person, Trimmed
<1>2. FirstOf(c) \in Text /\ LastOf(c) \in Text BY NamesAreTexts
<1>4. trim(FirstOf(c)) \in Seq(Words) /\ trim(LastOf(c)) \in Seq(Words)
  BY <1>2, TrimFacts
<1>5. /\ n.first = trim(FirstOf(c)) /\ n.last = trim(LastOf(c)) /\ n.gap = FALSE
      /\ n.full = join(trim(FirstOf(c)), trim(LastOf(c)), c.gap)
      /\ n.company = trim(c.company) /\ n.url = normalizeLinkedInUrl(c.url)
  BY <1>1, NormalFields
<1> HIDE DEF n
<1>6. /\ Missing \in {n.first, n.last} => n.full = n.first \o n.last
      /\ ~c.gap => n.full = n.first \o n.last
  BY <1>5 DEF join
<1>7. trim(n.company) = n.company
  BY <1>5, TrimFacts
<1>8. guessDomainFromCompany(n.company) = guessDomainFromCompany(c.company)
  BY <1>5, <1>7 DEF guessDomainFromCompany
<1> QED BY <1>1, <1>4, <1>5, <1>6, <1>7, <1>8, UrlFacts DEF Trimmed, n

\* Names that are there stay as they are.
LEMMA NamesStay ==
    ASSUME NEW c, Trimmed(c)
    PROVE  /\ c.first # Missing => normalizeCandidate(c).first = c.first
           /\ c.last # Missing => normalizeCandidate(c).last = c.last
  BY NormalFields, TrimFacts DEF Trimmed, FirstOf, LastOf, Or

\* A domain that was missing is guessed once and for all.
LEMMA DomainFacts ==
    ASSUME NEW d, NEW g
    PROVE  LET once == trim(Or(d, g))
               twice == trim(Or(once, g))
           IN  /\ d # Blank => twice = once
               /\ trim(Or(twice, g)) = twice
<1>1. Blank # Missing BY DEF Blank, Missing
<1> QED BY <1>1 DEF trim, Or

\* A worker's candidate is that of a single lookup but for blank space between the
\* names, and but for what the property names.
LEMMA AsksTheSame ==
    ASSUME NEW c \in Person, normalizeCandidate(c).first # Missing,
           normalizeCandidate(c).last # Missing, c.domain # Blank,
           c.url.slashes <= 1
    PROVE  LET n == normalizeCandidate(c)
               twice == normalizeCandidate(n)
           IN  /\ twice.first = n.first /\ twice.last = n.last
               /\ ~c.gap => twice.full = n.full
               /\ twice.company = n.company /\ twice.domain = n.domain
               /\ twice.url = n.url
<1> DEFINE n == normalizeCandidate(c)
           twice == normalizeCandidate(n)
           g == guessDomainFromCompany(c.company)
<1>1. c.url \in Url BY DEF Person
<1>2. /\ Trimmed(n) /\ guessDomainFromCompany(n.company) = g
      /\ ~c.gap => n.full = n.first \o n.last
  BY NormalFacts
<1>3. n.domain = trim(Or(c.domain, g)) /\ n.url = normalizeLinkedInUrl(c.url)
  BY <1>1, NormalFields
<1>4. n.url \in Url /\ n.gap = FALSE BY <1>2 DEF Trimmed
<1> HIDE DEF n
<1>5. Trimmed(twice) /\ twice.full = twice.first \o twice.last
  BY <1>2, <1>4, NormalFacts
<1>6. /\ twice.company = trim(n.company) /\ twice.url = normalizeLinkedInUrl(n.url)
      /\ twice.domain = trim(Or(n.domain, g))
  BY <1>2, <1>4, NormalFields
<1>7. twice.first = n.first /\ twice.last = n.last
  BY <1>2, NamesStay DEF n
<1>8. twice.company = n.company BY <1>2, <1>6 DEF Trimmed
<1>9. twice.domain = n.domain BY <1>3, <1>6, DomainFacts
<1>10. twice.url = n.url BY <1>1, <1>3, <1>6, UrlSettles
<1> HIDE DEF twice, g
<1>11. ~c.gap => twice.full = n.full BY <1>2, <1>5, <1>7
<1> QED BY <1>7, <1>8, <1>9, <1>10, <1>11 DEF n, twice

\* The key of the cache is the same for a row of a file and a single lookup,
\* unless the URL ends in more than two slashes.
LEMMA KeysAgree ==
    ASSUME NEW c \in Person, c.url.slashes <= 2
    PROVE  lookupKey(normalizeCandidate(normalizeCandidate(c)))
              = lookupKey(normalizeCandidate(c))
<1> DEFINE n1 == normalizeCandidate(c)
           n2 == normalizeCandidate(n1)
           n3 == normalizeCandidate(n2)
           g == guessDomainFromCompany(c.company)
<1>1. c.url \in Url BY DEF Person
<1>2. /\ Trimmed(n1)
      /\ guessDomainFromCompany(n1.company) = g /\ n1.url.slug = c.url.slug
  BY NormalFacts
<1>3. n1.url \in Url BY <1>2 DEF Trimmed
<1> HIDE DEF n1
<1>4. /\ Trimmed(n2)
      /\ guessDomainFromCompany(n2.company) = g /\ n2.url.slug = c.url.slug
  BY <1>2, NormalFacts
<1>5. n2.url \in Url BY <1>4 DEF Trimmed
<1>6. /\ n1.url = normalizeLinkedInUrl(c.url) /\ n1.company = trim(c.company)
      /\ n1.domain = trim(Or(c.domain, g))
  BY <1>1, NormalFields DEF n1
<1>7. /\ n2.url = normalizeLinkedInUrl(n1.url) /\ n2.company = trim(n1.company)
      /\ n2.domain = trim(Or(n1.domain, g))
      /\ n2.first = trim(FirstOf(n1)) /\ n2.last = trim(LastOf(n1))
  BY <1>2, <1>3, NormalFields
<1> HIDE DEF n2
<1>8. /\ n3.url = normalizeLinkedInUrl(n2.url) /\ n3.company = trim(n2.company)
      /\ n3.domain = trim(Or(n2.domain, g))
      /\ n3.first = trim(FirstOf(n2)) /\ n3.last = trim(LastOf(n2))
  BY <1>4, <1>5, NormalFields
<1>9. n3.url = n2.url
  BY <1>1, <1>6, <1>7, <1>8, UrlSettles
<1>10. n3.company = n2.company /\ n3.domain = n2.domain
  BY <1>2, <1>4, <1>6, <1>7, <1>8, DomainFacts DEF Trimmed
<1>11. n2.url = NoUrl => n3.first = n2.first /\ n3.last = n2.last
  <2> SUFFICES ASSUME n2.url = NoUrl
               PROVE  n3.first = n2.first /\ n3.last = n2.last
    OBVIOUS
  <2> DEFINE f == n1.first
             l == n1.last
  <2>1. n1.url.slug = Missing /\ n2.url.slug = Missing
    BY <1>2, <1>4 DEF NoUrl
  <2>2. /\ f \in Seq(Words) /\ l \in Seq(Words)
        /\ Missing \in {f, l} => n1.full = f \o l
        /\ n2.first \in Seq(Words) /\ n2.last \in Seq(Words)
        /\ Missing \in {n2.first, n2.last} => n2.full = n2.first \o n2.last
    BY <1>2, <1>4 DEF Trimmed
  <2>3. splitName(Missing).first = Missing /\ splitName(Missing).last = Missing
    BY SplitFacts
  <2>4. /\ f # Missing => n2.first = f
        /\ l # Missing => n2.last = l
        /\ n2.first # Missing => n3.first = n2.first
        /\ n2.last # Missing => n3.last = n2.last
    BY <1>2, <1>4, NamesStay DEF n2
  <2>5. /\ f = Missing => n2.first = trim(splitName(f \o l).first)
        /\ l = Missing => n2.last = trim(splitName(f \o l).last)
    BY <1>7, <2>1, <2>2, <2>3 DEF FirstOf, LastOf, Or
  <2>6. /\ n2.first = Missing =>
              n3.first = trim(splitName(n2.first \o n2.last).first)
        /\ n2.last = Missing =>
              n3.last = trim(splitName(n2.first \o n2.last).last)
    BY <1>8, <2>1, <2>2, <2>3 DEF FirstOf, LastOf, Or
  <2>7. Missing \o l = l /\ f \o Missing = f /\ Missing \o Missing = Missing
    BY <2>2, ConcatEmptySeq DEF Missing
  <2>8. trim(Missing) = Missing
    BY DEF trim, Missing, Blank
  <2>9. CASE f # Missing /\ l # Missing
    BY <2>4, <2>9
  <2>10. CASE f = Missing /\ l = Missing
    BY <2>3, <2>5, <2>6, <2>7, <2>8, <2>10
  <2>11. CASE f = Missing /\ l # Missing
    <3>1. n2.first = trim(<<Head(l)>>) /\ n2.last = l
      BY <2>2, <2>4, <2>5, <2>7, <2>11, SplitFacts
    <3>2. n2.first # Missing
      BY <3>1, <2>2, <2>11, SplitFacts, TrimFacts
    <3> QED BY <3>1, <3>2, <2>4, <2>11
  <2>12. CASE f # Missing /\ l = Missing
    <3>1. n2.first = f /\ n2.last = trim(Tail(f)) /\ trim(Tail(f)) = Tail(f)
      BY <2>2, <2>4, <2>5, <2>7, <2>12, SplitFacts, TrimFacts
    <3>2. CASE Tail(f) # Missing
      BY <3>1, <3>2, <2>4, <2>12
    <3>3. CASE Tail(f) = Missing
      <4>1. n2.first \o n2.last = f BY <3>1, <3>3, <2>7
      <4>2. n3.last = trim(Tail(f))
        BY <4>1, <3>1, <3>3, <2>2, <2>6, <2>12, SplitFacts
      <4> QED BY <4>2, <3>1, <2>4, <2>12
    <3> QED BY <3>2, <3>3
  <2> QED BY <2>9, <2>10, <2>11, <2>12
<1> HIDE DEF n3
<1>12. Key(n3) = Key(n2)
  BY <1>9, <1>10, <1>11 DEF Key
<1> QED BY <1>12 DEF lookupKey, n1, n2, n3

-----------------------------------------------------------------------------
(* Where lookups and workers are, and what they hold: an invariant every     *)
(* theorem below rests on.                                                   *)

RowPlaces == {"cache", "log hit", "providers", "try", "save", "log found", "log none"}
SinglePlaces == {"idle", "answered", "failed", "gone"}
JobPlaces == SinglePlaces \union
    {"start", "row", "progress", "upload", "complete", "fail"}

\* Someone is looked up.
OnRow(r) ==
    /\ r.at \in RowPlaces /\ r.person \in People /\ r.known \in {"no", "yes", "expired"}
    /\ r = [at |-> r.at, person |-> r.person, todo |-> r.todo, known |-> r.known]
AtRest(r, places) == r.at \in places /\ r = At(r.at)

LookupShape ==
    /\ lookup = [a \in Agents |-> lookup[a]]
    /\ \A s \in Singles : OnRow(lookup[s]) \/ AtRest(lookup[s], SinglePlaces)
    /\ \A j \in Jobs : OnRow(lookup[j]) \/ AtRest(lookup[j], JobPlaces)

JobStatuses == {"none", "pending", "processing", "complete", "failed"}
JobRow == [status : JobStatuses, file : Seq(People), processed : Nat, found : Nat,
           url : BOOLEAN]
JobShape ==
    /\ job \in [Jobs -> JobRow]
    /\ output \in [Jobs -> Seq(BOOLEAN)]

Shape == LookupShape /\ JobShape

-----------------------------------------------------------------------------
(* The inductive invariants.                                                 *)

\* Who is counted or open was let in when fewer than Limit rows were counted,
\* or was open next to the last one let in.
LimitInv ==
    /\ IsFiniteSet(logged) /\ IsFiniteSet(OpenSingles) /\ logged \subseteq Singles
    /\ used \in Nat /\ peak \in Nat
    /\ Cardinality(logged) <= used
    /\ Cardinality(OpenSingles) <= peak
    /\ Cardinality(logged \union OpenSingles) <= Limit - 1 + peak

\* Who was answered has a key in the cache, and so has who is known: a lookup of
\* theirs that is past the cache looked under another key.
Cached(q) == \E a \in Agents : key[a][q] \in cache
PastCache == {"providers", "try", "save", "log found", "log none"}
PaidAt(a) ==
    lookup[a].at \in RowPlaces =>
        /\ lookup[a].at \in {"log hit", "log found"} /\ lookup[a].known # "expired"
              => KeyOf(a) \in cache
        /\ lookup[a].known = "yes" => Cached(lookup[a].person)
        /\ lookup[a].at \in PastCache =>
              lookup[a].known # "yes" \/ Given[lookup[a].person].url.slashes > 2
AnsweredCached == \A q \in answered : q \in People /\ Cached(q)
PaidInv == AnsweredCached /\ \A a \in Agents : PaidAt(a)

\* Reports come at the multiples of the interval and at the end of the file, so
\* that a job lags a whole interval only while a report is due, or has failed.
Reportable(n, m) == n % ProgressEvery = 0 \/ n = m
\* Of a job: its row, how many rows the worker has done, the emails among those
\* it reported, and where it is.
RowFits(row, n, found, at) ==
    /\ row.processed <= n /\ n <= Len(row.file)
    /\ row.found = found
    /\ Reportable(row.processed, Len(row.file)) /\ n - row.processed <= ProgressEvery
    /\ row.status = "complete" => row.url
    /\ row.url => /\ row.status \in {"complete", "failed"}
                  /\ row.processed = Len(row.file)
                  /\ at \in {"answered", "fail", "failed", "gone"}
    /\ at \in {"idle", "start"} => row.processed = 0 /\ n = 0
    /\ at = "idle" => row = NoJob
    /\ at \in RowPlaces => n < Len(row.file)
    /\ at \in RowPlaces \union {"row"} => n - row.processed < ProgressEvery
    /\ at = "progress" => Reportable(n, Len(row.file))
    /\ at \in {"upload", "complete"} => n = Len(row.file)
RowsInv(j) ==
    RowFits(job[j], Len(output[j]), Found(j, job[j].processed), lookup[j].at)
JobsInv == \A j \in Jobs : RowsInv(j)

-----------------------------------------------------------------------------
(* How lookup changes.                                                       *)

\* Only a moves.
Alone(a) ==
    /\ lookup' = [b \in Agents |-> lookup'[b]]
    /\ \A b \in Agents \ {a} : lookup'[b] = lookup[b]
\* The same person is looked up at the next place.
Stays(a) ==
    /\ OnRow(lookup'[a])
    /\ lookup'[a].person = lookup[a].person /\ lookup'[a].known = lookup[a].known
\* The row is done or was given up.
RowEnds(a) ==
    AtRest(lookup'[a], IF a \in Singles THEN {"answered", "failed"}
                       ELSE {"row", "progress", "fail"})

LEMMA Disjoint == RowPlaces \intersect JobPlaces = {} /\ SinglePlaces \subseteq JobPlaces
  BY DEF RowPlaces, JobPlaces, SinglePlaces

LEMMA RowOf ==
    ASSUME LookupShape, NEW a \in Agents, lookup[a].at \in RowPlaces
    PROVE  OnRow(lookup[a])
  BY Disjoint DEF LookupShape, AtRest, Agents

LEMMA RestOf ==
    ASSUME LookupShape, NEW a \in Agents, lookup[a].at \notin RowPlaces
    PROVE  lookup[a] = At(lookup[a].at)
  BY DEF LookupShape, AtRest, OnRow, Agents

LEMMA GotoMoves ==
    ASSUME LookupShape, NEW a \in Agents, NEW place, Goto(a, place)
    PROVE  Alone(a) /\ lookup'[a] = [lookup[a] EXCEPT !.at = place]
  BY DEF LookupShape, Goto, Alone

LEMMA GotoStays ==
    ASSUME LookupShape, NEW a \in Agents, OnRow(lookup[a]),
           NEW place \in RowPlaces, Goto(a, place)
    PROVE  Alone(a) /\ Stays(a) /\ lookup'[a].at = place
<1> DEFINE r == lookup[a]
<1>1. Alone(a) /\ lookup'[a] = [r EXCEPT !.at = place]
  BY GotoMoves
<1>2. r = [at |-> r.at, person |-> r.person, todo |-> r.todo, known |-> r.known]
  BY DEF OnRow
<1>3. lookup'[a] = [at |-> place, person |-> r.person, todo |-> r.todo, known |-> r.known]
  BY <1>1, <1>2
<1>4. r.person \in People /\ r.known \in {"no", "yes", "expired"}
  BY DEF OnRow
<1> HIDE DEF r
<1> QED BY <1>1, <1>3, <1>4 DEF Stays, OnRow, r

LEMMA GotoRests ==
    ASSUME LookupShape, NEW a \in Agents, lookup[a] = At(lookup[a].at),
           NEW place, Goto(a, place)
    PROVE  Alone(a) /\ lookup'[a] = At(place)
  BY GotoMoves DEF At

LEMMA LeavesMoves ==
    ASSUME LookupShape, NEW a \in Agents, NEW place, Leaves(a, place)
    PROVE  Alone(a) /\ lookup'[a] = At(place)
  BY DEF LookupShape, Leaves, Alone

LEMMA ThrowsMoves ==
    ASSUME LookupShape, NEW a \in Agents, Throws(a)
    PROVE  /\ Alone(a) /\ RowEnds(a)
           /\ lookup'[a].at = IF a \in Jobs THEN "fail" ELSE "failed"
<1>1. Alone(a) /\ lookup'[a] = At(IF a \in Jobs THEN "fail" ELSE "failed")
  BY LeavesMoves DEF Throws
<1>2. a \in Jobs <=> a \notin Singles
  BY EnrichmentAssumption DEF Agents
<1> QED BY <1>1, <1>2 DEF RowEnds, AtRest, At

LEMMA NextProviderMoves ==
    ASSUME LookupShape, NEW a \in Agents, OnRow(lookup[a]), Next_provider(a)
    PROVE  Alone(a) /\ Stays(a) /\ lookup'[a].at \in {"log none", "try"}
<1> DEFINE r == lookup[a]
           place == IF Len(r.todo) = 1 THEN "log none" ELSE "try"
<1>1. Alone(a) /\ lookup'[a] = [r EXCEPT !.todo = Tail(@), !.at = place]
  BY DEF Next_provider, LookupShape, Alone
<1>2. r = [at |-> r.at, person |-> r.person, todo |-> r.todo, known |-> r.known]
  BY DEF OnRow
<1>3. lookup'[a] = [at |-> place, person |-> r.person, todo |-> Tail(r.todo),
                    known |-> r.known]
  BY <1>1, <1>2
<1>4. r.person \in People /\ r.known \in {"no", "yes", "expired"}
  BY DEF OnRow
<1>5. place \in {"log none", "try"} /\ place \in RowPlaces BY DEF RowPlaces
<1> HIDE DEF r, place
<1> QED BY <1>1, <1>3, <1>4, <1>5 DEF Stays, OnRow, r

\* A row that is answered: a worker reports or goes on.
LEMMA AnswersMoves ==
    ASSUME LookupShape, NEW a \in Agents, NEW found, Answers(a, found)
    PROVE  /\ Alone(a) /\ RowEnds(a)
           /\ a \in Singles => output' = output /\ lookup'[a].at = "answered"
           /\ a \in Jobs =>
                 /\ output' = [output EXCEPT ![a] = Append(@, found)]
                 /\ lookup'[a].at =
                       IF \/ (Len(output[a]) + 1) % ProgressEvery = 0
                          \/ Len(output[a]) + 1 = Len(job[a].file)
                       THEN "progress" ELSE "row"
<1>1. a \in Jobs <=> a \notin Singles
  BY EnrichmentAssumption DEF Agents
<1>2. CASE a \in Singles
  <2>1. Leaves(a, "answered") /\ output' = output
    BY <1>2 DEF Answers
  <2>2. Alone(a) /\ lookup'[a] = At("answered")
    BY <2>1, LeavesMoves
  <2> QED BY <1>1, <1>2, <2>1, <2>2 DEF RowEnds, AtRest, At
<1>3. CASE a \in Jobs
  <2> DEFINE n == Len(output[a]) + 1
             place == IF n % ProgressEvery = 0 \/ n = Len(job[a].file)
                      THEN "progress" ELSE "row"
  <2>1. Leaves(a, place) /\ output' = [output EXCEPT ![a] = Append(@, found)]
    BY <1>1, <1>3 DEF Answers
  <2>2. place \in {"progress", "row"} OBVIOUS
  <2>3. place = IF \/ (Len(output[a]) + 1) % ProgressEvery = 0
                   \/ Len(output[a]) + 1 = Len(job[a].file)
                THEN "progress" ELSE "row"
    OBVIOUS
  <2> HIDE DEF place
  <2>4. Alone(a) /\ lookup'[a] = At(place)
    BY <2>1, LeavesMoves
  <2> QED BY <1>1, <1>3, <2>1, <2>2, <2>3, <2>4 DEF RowEnds, AtRest, At
<1> QED BY <1>1, <1>2, <1>3

\* A step of enrichCandidate: where it leads from each place.
RowStep(a) ==
    LET from == lookup[a].at
        to == lookup'[a].at
    IN  \/ RowEnds(a)
        \/ Stays(a) /\ \/ from = "cache" /\ to \in {"log hit", "providers"}
                       \/ from = "providers" /\ to = "try"
                       \/ from \in {"try", "save", "log found"} /\ to \in {"log none", "try"}
                       \/ from = "try" /\ to = "save"
                       \/ from = "save" /\ to = "log found"

LEMMA EnrichStepMoves ==
    ASSUME LookupShape, NEW a \in Agents, EnrichStep(a)
    PROVE  OnRow(lookup[a]) /\ Alone(a) /\ RowStep(a)
<1>1. lookup[a].at \in RowPlaces
  BY DEF EnrichStep, getCache, getUserProviders, findEmail, setCache, logUsage,
         RowPlaces
<1>2. OnRow(lookup[a])
  BY <1>1, RowOf
<1>3. CASE getCache(a)
  <2>1. lookup[a].at = "cache" /\ \/ Throws(a)
                                  \/ Goto(a, "log hit")
                                  \/ Goto(a, "providers")
    BY <1>3 DEF getCache
  <2>2. "log hit" \in RowPlaces /\ "providers" \in RowPlaces BY DEF RowPlaces
  <2> QED BY <1>2, <2>1, <2>2, ThrowsMoves, GotoStays DEF RowStep
<1>4. CASE getUserProviders(a)
  <2>1. lookup[a].at = "providers"
    BY <1>4 DEF getUserProviders
  <2>2. \/ Throws(a)
        \/ Answers(a, FALSE)
        \/ \E order : lookup' = [lookup EXCEPT ![a].at = "try", ![a].todo = order]
    BY <1>4 DEF getUserProviders
  <2>3. ASSUME NEW order,
               lookup' = [lookup EXCEPT ![a].at = "try", ![a].todo = order]
        PROVE  Alone(a) /\ Stays(a) /\ lookup'[a].at = "try"
    <3> DEFINE r == lookup[a]
    <3>1. Alone(a) /\ lookup'[a] = [r EXCEPT !.at = "try", !.todo = order]
      BY <2>3 DEF LookupShape, Alone
    <3>2. r = [at |-> r.at, person |-> r.person, todo |-> r.todo, known |-> r.known]
      BY <1>2 DEF OnRow
    <3>3. lookup'[a] = [at |-> "try", person |-> r.person, todo |-> order,
                        known |-> r.known]
      BY <3>1, <3>2
    <3>4. r.person \in People /\ r.known \in {"no", "yes", "expired"}
      BY <1>2 DEF OnRow
    <3>5. "try" \in RowPlaces BY DEF RowPlaces
    <3> HIDE DEF r
    <3> QED BY <3>1, <3>3, <3>4, <3>5 DEF Stays, OnRow, r
  <2> QED BY <1>2, <2>1, <2>2, <2>3, ThrowsMoves, AnswersMoves DEF RowStep
<1>5. CASE findEmail(a)
  <2>1. lookup[a].at = "try" /\ (Goto(a, "save") \/ Next_provider(a))
    BY <1>5 DEF findEmail
  <2>2. "save" \in RowPlaces BY DEF RowPlaces
  <2> QED BY <1>2, <2>1, <2>2, GotoStays, NextProviderMoves DEF RowStep
<1>6. CASE setCache(a)
  <2>1. lookup[a].at = "save" /\ (Goto(a, "log found") \/ Next_provider(a))
    BY <1>6 DEF setCache
  <2>2. "log found" \in RowPlaces BY DEF RowPlaces
  <2> QED BY <1>2, <2>1, <2>2, GotoStays, NextProviderMoves DEF RowStep
<1>7. CASE logUsage(a)
  <2>1. \/ Answers(a, lookup[a].at # "log none")
        \/ lookup[a].at = "log found" /\ Next_provider(a)
        \/ Throws(a)
    BY <1>7 DEF logUsage
  <2> QED BY <1>2, <2>1, NextProviderMoves, AnswersMoves, ThrowsMoves DEF RowStep
<1> QED BY <1>2, <1>3, <1>4, <1>5, <1>6, <1>7 DEF EnrichStep

\* A lookup begins at the cache, unless the URL is malformed.
LEMMA BeginFacts ==
    ASSUME NEW a \in Agents, NEW q \in People
    PROVE  \/ /\ OnRow(Begin(a, q)) /\ Begin(a, q).at = "cache"
              /\ Begin(a, q).person = q
              /\ Begin(a, q).known = IF q \in answered THEN "yes" ELSE "no"
           \/ Begin(a, q) = At(IF a \in Jobs THEN "fail" ELSE "failed")
  BY DEF Begin, OnRow, RowPlaces

\* What a crash leaves.
LEMMA CrashMoves ==
    ASSUME LookupShape, Crash
    PROVE  /\ lookup' = [a \in Agents |-> lookup'[a]]
           /\ \A a \in Agents : \/ Open(a) /\ lookup'[a] = At("gone")
                                \/ ~Open(a) /\ lookup'[a] = lookup[a]
  BY DEF Crash

\* An email that expires changes no place.
LEMMA ExpireMoves ==
    ASSUME LookupShape, NEW old, Expire(old)
    PROVE  /\ lookup' = [a \in Agents |-> lookup'[a]]
           /\ \A a \in Agents :
                 \/ lookup'[a] = lookup[a]
                 \/ /\ OnRow(lookup[a]) /\ OnRow(lookup'[a])
                    /\ lookup'[a].at = lookup[a].at
                    /\ lookup'[a].person = lookup[a].person
                    /\ lookup'[a].known = "expired"
           /\ \A a \in Agents : OnRow(lookup[a]) =>
                 \/ lookup'[a].known = "expired"
                 \/ \A b \in Agents : old # key[b][lookup[a].person]
<1> DEFINE of(q) == \E a \in Agents : old = key[a][q]
<1>1. lookup' = [a \in Agents |->
                    IF "known" \in DOMAIN lookup[a] /\ of(lookup[a].person)
                    THEN [lookup[a] EXCEPT !.known = "expired"] ELSE lookup[a]]
  BY DEF Expire
<1> HIDE DEF of
<1>2. lookup' = [a \in Agents |-> lookup'[a]]
  BY <1>1
<1>3. ASSUME NEW a \in Agents, OnRow(lookup[a]), of(lookup[a].person)
      PROVE  /\ OnRow(lookup'[a])
             /\ lookup'[a].at = lookup[a].at
             /\ lookup'[a].person = lookup[a].person
             /\ lookup'[a].known = "expired"
  <2> DEFINE r == lookup[a]
  <2>1. r = [at |-> r.at, person |-> r.person, todo |-> r.todo, known |-> r.known]
    BY <1>3 DEF OnRow
  <2>2. "known" \in DOMAIN r
    BY <2>1
  <2>3. lookup'[a] = [r EXCEPT !.known = "expired"]
    BY <1>1, <1>3, <2>2
  <2>4. lookup'[a] = [at |-> r.at, person |-> r.person, todo |-> r.todo,
                      known |-> "expired"]
    BY <2>1, <2>3
  <2>5. r.person \in People /\ r.at \in RowPlaces
    BY <1>3 DEF OnRow
  <2> HIDE DEF r
  <2> QED BY <2>4, <2>5 DEF OnRow, r
<1>4. ASSUME NEW a \in Agents, ~of(lookup[a].person)
      PROVE  lookup'[a] = lookup[a]
  BY <1>1, <1>4
<1>5. ASSUME NEW a \in Agents, ~OnRow(lookup[a])
      PROVE  lookup'[a] = lookup[a]
  <2>1. lookup[a] = At(lookup[a].at)
    BY <1>5 DEF LookupShape, AtRest, Agents
  <2>2. "known" \notin DOMAIN lookup[a]
    <3>1. DOMAIN At(lookup[a].at) = {"at"} BY DEF At
    <3> QED BY <2>1, <3>1
  <2> QED BY <1>1, <2>2
<1>6. \A a \in Agents : ~of(lookup[a].person) =>
         \A b \in Agents : old # key[b][lookup[a].person]
  BY DEF of
<1> QED BY <1>2, <1>3, <1>4, <1>5, <1>6

-----------------------------------------------------------------------------
(* The shape is kept.                                                        *)

LEMMA AloneKeepsShape ==
    ASSUME LookupShape, NEW a \in Agents, Alone(a),
           \/ OnRow(lookup'[a])
           \/ AtRest(lookup'[a], IF a \in Singles THEN SinglePlaces ELSE JobPlaces)
    PROVE  LookupShape'
<1>1. Singles \intersect Jobs = {} BY EnrichmentAssumption
<1> QED BY <1>1 DEF LookupShape, Alone, Agents, OnRow, AtRest

LEMMA FoundType ==
    ASSUME JobShape, NEW j \in Jobs, NEW n \in Nat
    PROVE  Found(j, n) \in Nat
<1>1. IsFiniteSet(1..n) BY FS_Interval
<1>2. {i \in 1..n : output[j][i]} \subseteq 1..n OBVIOUS
<1>3. IsFiniteSet({i \in 1..n : output[j][i]}) BY <1>1, <1>2, FS_Subset
<1> QED BY <1>3, FS_CardinalityType DEF Found

\* The next row of a file is a person.
LEMMA RowIsPerson ==
    ASSUME JobShape, NEW j \in Jobs, Len(output[j]) + 1 <= Len(job[j].file)
    PROVE  job[j].file[Len(output[j]) + 1] \in People
<1>1. job[j].file \in Seq(People) /\ output[j] \in Seq(BOOLEAN)
  BY DEF JobShape, JobRow
<1>2. Len(output[j]) \in Nat BY <1>1, LenProperties
<1>3. Len(job[j].file) \in Nat BY <1>1, LenProperties
<1>4. Len(output[j]) + 1 \in 1..Len(job[j].file) BY <1>2, <1>3
<1> QED BY <1>1, <1>4, ElementOfSeq

\* Where a worker goes between rows.
LEMMA WorkMoves ==
    ASSUME Shape, NEW j \in Jobs, Work(j)
    PROVE  /\ lookup[j].at \notin RowPlaces /\ lookup[j] = At(lookup[j].at)
           /\ \/ Alone(j) /\ AtRest(lookup'[j], JobPlaces)
              \/ /\ NextRow(j) /\ Alone(j)
                 /\ Len(output[j]) + 1 <= Len(job[j].file)
                 /\ lookup'[j] = Begin(j, job[j].file[Len(output[j]) + 1])
              \/ RecordFailure(j) /\ Crash
<1> USE DEF Shape
<1>0. j \in Agents BY DEF Agents
<1>1. lookup[j].at \notin RowPlaces
  BY DEF Work, StartJob, NextRow, Progress, uploadResultCsv, Complete,
         RecordFailure, RowPlaces
<1>2. lookup[j] = At(lookup[j].at)
  BY <1>0, <1>1, RestOf
<1>3. ASSUME NEW place \in JobPlaces, Goto(j, place)
      PROVE  Alone(j) /\ AtRest(lookup'[j], JobPlaces)
  <2>1. Alone(j) /\ lookup'[j] = At(place) BY <1>0, <1>2, <1>3, GotoRests
  <2> QED BY <2>1 DEF AtRest, At
<1>4. ASSUME NEW row, NEW next \in JobPlaces, updateJob(j, row, next)
      PROVE  Alone(j) /\ AtRest(lookup'[j], JobPlaces)
  <2>1. Goto(j, next) \/ Goto(j, "fail") BY <1>4 DEF updateJob
  <2>2. "fail" \in JobPlaces BY DEF JobPlaces
  <2> QED BY <1>3, <1>4, <2>1, <2>2
<1>5. /\ "row" \in JobPlaces /\ "upload" \in JobPlaces /\ "complete" \in JobPlaces
      /\ "fail" \in JobPlaces /\ "failed" \in JobPlaces /\ "answered" \in JobPlaces
  BY DEF JobPlaces, SinglePlaces
<1>6. CASE StartJob(j) BY <1>1, <1>2, <1>4, <1>5, <1>6 DEF StartJob
<1>7. CASE NextRow(j)
  <2> DEFINE n == Len(output[j]) + 1
  <2>1. CASE n > Len(job[j].file)
    BY <1>1, <1>2, <1>3, <1>5, <1>7, <2>1 DEF NextRow
  <2>2. CASE ~(n > Len(job[j].file))
    <3>1. lookup' = [lookup EXCEPT ![j] = Begin(j, job[j].file[n])]
      BY <1>7, <2>2 DEF NextRow
    <3>2. Alone(j) /\ lookup'[j] = Begin(j, job[j].file[n])
      BY <1>0, <3>1 DEF LookupShape, Alone
    <3>3. n <= Len(job[j].file)
      <4>1. job[j].file \in Seq(People) /\ output[j] \in Seq(BOOLEAN)
        BY DEF JobShape, JobRow
      <4>2. Len(output[j]) \in Nat BY <4>1, LenProperties
      <4>3. Len(job[j].file) \in Nat BY <4>1, LenProperties
      <4> QED BY <2>2, <4>2, <4>3
    <3> QED BY <1>1, <1>2, <1>7, <3>2, <3>3
  <2> QED BY <2>1, <2>2
<1>8. CASE Progress(j) BY <1>1, <1>2, <1>4, <1>5, <1>8 DEF Progress
<1>9. CASE uploadResultCsv(j) BY <1>1, <1>2, <1>3, <1>5, <1>9 DEF uploadResultCsv
<1>10. CASE Complete(j) BY <1>1, <1>2, <1>4, <1>5, <1>10 DEF Complete
<1>11. CASE RecordFailure(j)
  <2>1. Goto(j, "failed") \/ Crash BY <1>11 DEF RecordFailure
  <2> QED BY <1>1, <1>2, <1>3, <1>5, <1>11, <2>1
<1> QED BY <1>6, <1>7, <1>8, <1>9, <1>10, <1>11 DEF Work

LEMMA CrashKeepsShape ==
    ASSUME LookupShape, Crash
    PROVE  LookupShape'
<1>1. "gone" \in SinglePlaces /\ "gone" \in JobPlaces
  BY DEF SinglePlaces, JobPlaces
<1>2. AtRest(At("gone"), SinglePlaces) /\ AtRest(At("gone"), JobPlaces)
  BY <1>1 DEF AtRest, At
<1>3. /\ lookup' = [a \in Agents |-> lookup'[a]]
      /\ \A a \in Agents : lookup'[a] = At("gone") \/ lookup'[a] = lookup[a]
  BY CrashMoves
<1> QED BY <1>2, <1>3 DEF LookupShape, Agents

\* What a single lookup is let in for.
LEMMA EnforceMoves ==
    ASSUME LookupShape, NEW s \in Singles, NEW q \in Asked,
           enforceDailyLookupLimit(s, q)
    PROVE  /\ lookup[s].at = "idle" /\ Alone(s)
           /\ \/ lookup'[s] = At("failed") /\ peak' = peak
              \/ /\ lookup'[s] = Begin(s, q) /\ ~(used >= Limit)
                 /\ peak' = IF Cardinality(OpenSingles) + 1 > peak
                            THEN Cardinality(OpenSingles) + 1 ELSE peak
<1>0. s \in Agents BY DEF Agents
<1>1. PICK outcome \in Reads :
         LET refused == outcome = "refused" \/ used >= Limit
         IN  /\ lookup' = [lookup EXCEPT ![s] =
                              IF refused THEN At("failed") ELSE Begin(s, q)]
             /\ peak' = IF ~refused /\ Cardinality(OpenSingles) + 1 > peak
                        THEN Cardinality(OpenSingles) + 1 ELSE peak
  BY DEF enforceDailyLookupLimit
<1> DEFINE refused == outcome = "refused" \/ used >= Limit
<1>2. Alone(s) /\ lookup'[s] = IF refused THEN At("failed") ELSE Begin(s, q)
  BY <1>0, <1>1 DEF LookupShape, Alone
<1>3. peak' = IF ~refused /\ Cardinality(OpenSingles) + 1 > peak
              THEN Cardinality(OpenSingles) + 1 ELSE peak
  BY <1>1
<1>4. ~refused => ~(used >= Limit) OBVIOUS
<1> HIDE DEF refused
<1>5. lookup[s].at = "idle" BY DEF enforceDailyLookupLimit
<1> QED BY <1>2, <1>3, <1>4, <1>5

LEMMA CreateMoves ==
    ASSUME LookupShape, NEW j \in Jobs, NEW file \in Files, createBatchJob(j, file)
    PROVE  /\ lookup[j].at = "idle" /\ lookup[j] = At("idle") /\ Alone(j)
           /\ lookup'[j] \in {At("start"), At("failed")}
           /\ output' = output
           /\ \/ job' = [job EXCEPT ![j] = [NoJob EXCEPT !.status = "pending",
                                                         !.file = file]]
              \/ job' = job /\ lookup'[j] = At("failed")
<1>0. j \in Agents BY DEF Agents
<1>1. lookup[j].at = "idle" /\ output' = output BY DEF createBatchJob
<1>2. lookup[j] = At("idle")
  <2>1. "idle" \notin RowPlaces BY DEF RowPlaces
  <2> QED BY <1>0, <1>1, <2>1, RestOf
<1>3. PICK outcome \in Outcomes :
         /\ Goto(j, IF outcome = "done" THEN "start" ELSE "failed")
         /\ job' = IF Applied(outcome)
                   THEN [job EXCEPT ![j] = [NoJob EXCEPT !.status = "pending",
                                                         !.file = file]]
                   ELSE job
  BY DEF createBatchJob
<1>4. lookup[j] = At(lookup[j].at) BY <1>1, <1>2
<1>5. Alone(j) /\ lookup'[j] = At(IF outcome = "done" THEN "start" ELSE "failed")
  BY <1>0, <1>3, <1>4, GotoRests
<1> QED BY <1>1, <1>2, <1>3, <1>5 DEF Applied

LEMMA LookupShapeKept ==
    ASSUME Shape, [Next]_vars
    PROVE  LookupShape'
<1>0. LookupShape /\ Singles \intersect Jobs = {}
  BY EnrichmentAssumption DEF Shape
<1>1. ASSUME NEW a \in Agents, NEW q \in People, lookup'[a] = Begin(a, q), Alone(a)
      PROVE  LookupShape'
  <2>1. \/ OnRow(lookup'[a])
        \/ lookup'[a] = At(IF a \in Jobs THEN "fail" ELSE "failed")
    BY <1>1, BeginFacts
  <2>2. /\ AtRest(At("failed"), SinglePlaces) /\ AtRest(At("fail"), JobPlaces)
        /\ a \in Singles <=> a \notin Jobs
    BY <1>0 DEF AtRest, At, SinglePlaces, JobPlaces, Agents
  <2> QED BY <1>0, <1>1, <2>1, <2>2, AloneKeepsShape
<1>2. ASSUME NEW s \in Singles, NEW q \in Asked, enforceDailyLookupLimit(s, q)
      PROVE  LookupShape'
  <2>1. AtRest(At("failed"), SinglePlaces) BY DEF AtRest, At, SinglePlaces
  <2>2. q \in People /\ s \in Agents BY EnrichmentAssumption DEF Agents
  <2> QED BY <1>0, <1>1, <1>2, <2>1, <2>2, EnforceMoves, AloneKeepsShape
<1>3. ASSUME NEW j \in Jobs, NEW file \in Files, createBatchJob(j, file)
      PROVE  LookupShape'
  <2>1. AtRest(At("failed"), JobPlaces) /\ AtRest(At("start"), JobPlaces)
    BY DEF AtRest, At, SinglePlaces, JobPlaces
  <2>2. j \in Agents /\ j \notin Singles BY <1>0 DEF Agents
  <2> QED BY <1>0, <1>3, <2>1, <2>2, CreateMoves, AloneKeepsShape
<1>4. ASSUME NEW a \in Agents, EnrichStep(a)
      PROVE  LookupShape'
  <2>1. Alone(a) /\ RowStep(a) BY <1>0, <1>4, EnrichStepMoves
  <2>2. \/ OnRow(lookup'[a])
        \/ AtRest(lookup'[a], IF a \in Singles THEN SinglePlaces ELSE JobPlaces)
    BY <2>1 DEF RowStep, RowEnds, Stays, AtRest, SinglePlaces, JobPlaces
  <2> QED BY <1>0, <2>1, <2>2, AloneKeepsShape
<1>5. ASSUME NEW j \in Jobs, Work(j)
      PROVE  LookupShape'
  <2>1. j \in Agents /\ j \notin Singles BY <1>0 DEF Agents
  <2>2. CASE Alone(j) /\ AtRest(lookup'[j], JobPlaces)
    BY <1>0, <2>1, <2>2, AloneKeepsShape
  <2>3. CASE /\ Alone(j) /\ Len(output[j]) + 1 <= Len(job[j].file)
             /\ lookup'[j] = Begin(j, job[j].file[Len(output[j]) + 1])
    BY <1>1, <2>1, <2>3, RowIsPerson DEF Shape
  <2> QED BY <1>0, <1>5, <2>2, <2>3, WorkMoves, CrashKeepsShape
<1>6. ASSUME NEW old \in cache, Expire(old)
      PROVE  LookupShape'
  BY <1>0, <1>6, ExpireMoves DEF LookupShape, AtRest, Agents
<1>7. CASE Restart
  BY <1>0, <1>7, CrashKeepsShape DEF Restart
<1>8. ASSUME lookup' = lookup PROVE LookupShape'
  BY <1>0, <1>8 DEF LookupShape, OnRow, AtRest
<1>9. ASSUME NEW p \in Providers, NEW priority, SaveProvider(p, priority)
      PROVE  LookupShape'
  BY <1>8, <1>9 DEF SaveProvider
<1>10. CASE Midnight BY <1>8, <1>10 DEF Midnight
<1>11. CASE UNCHANGED vars BY <1>8, <1>11 DEF vars
<1> QED BY <1>2, <1>3, <1>4, <1>5, <1>6, <1>7, <1>9, <1>10, <1>11
        DEF Next, DeleteProvider

\* The rows of jobs are written by creation and by the worker alone.
LEMMA RowWritten ==
    ASSUME JobShape, NEW j \in Jobs, NEW row, NEW next, updateJob(j, row, next)
    PROVE  job' = job \/ job' = [job EXCEPT ![j] = row]
  BY DEF updateJob

LEMMA JobShapeKept ==
    ASSUME Shape, [Next]_vars
    PROVE  JobShape'
<1>0. LookupShape /\ JobShape /\ Singles \intersect Jobs = {}
  BY EnrichmentAssumption DEF Shape
<1>1. ASSUME output' = output, NEW j \in Jobs, NEW row \in JobRow,
             job' = job \/ job' = [job EXCEPT ![j] = row]
      PROVE  JobShape'
  BY <1>0, <1>1 DEF JobShape
<1>2. ASSUME output' = output, job' = job PROVE JobShape'
  BY <1>0, <1>2 DEF JobShape
<1>3. ASSUME NEW j \in Jobs, NEW file \in Files, createBatchJob(j, file)
      PROVE  JobShape'
  <2>1. file \in Seq(People) BY EnrichmentAssumption
  <2>2. [NoJob EXCEPT !.status = "pending", !.file = file] \in JobRow
    BY <2>1 DEF NoJob, JobRow, JobStatuses
  <2> QED BY <1>0, <1>1, <1>2, <1>3, <2>2, CreateMoves
<1>4. ASSUME NEW a \in Agents, EnrichStep(a)
      PROVE  JobShape'
  <2>1. job' = job
    BY <1>4 DEF EnrichStep, getCache, getUserProviders, findEmail, setCache, logUsage
  <2>2. \/ output' = output
        \/ \E found \in BOOLEAN : Answers(a, found)
    <3>1. (lookup[a].at # "log none") \in BOOLEAN OBVIOUS
    <3>2. CASE getUserProviders(a) BY <3>2 DEF getUserProviders
    <3>3. CASE logUsage(a) BY <3>1, <3>3 DEF logUsage
    <3> QED BY <1>4, <3>2, <3>3
            DEF EnrichStep, getCache, findEmail, setCache, history
  <2>3. ASSUME NEW found \in BOOLEAN, Answers(a, found)
        PROVE  output' \in [Jobs -> Seq(BOOLEAN)]
    <3>1. \/ output' = output
          \/ a \in Jobs /\ output' = [output EXCEPT ![a] = Append(@, found)]
      BY <1>0, <2>3, AnswersMoves DEF Agents
    <3>2. ASSUME a \in Jobs PROVE Append(output[a], found) \in Seq(BOOLEAN)
      BY <1>0, <3>2, AppendProperties DEF JobShape
    <3> QED BY <1>0, <3>1, <3>2 DEF JobShape
  <2> QED BY <1>0, <2>1, <2>2, <2>3 DEF JobShape
<1>5. ASSUME NEW j \in Jobs, Work(j)
      PROVE  JobShape'
  <2>1. output' = output
    BY <1>5 DEF Work, StartJob, NextRow, Progress, uploadResultCsv, Complete,
                RecordFailure
  <2>2. job[j] \in JobRow /\ output[j] \in Seq(BOOLEAN) BY <1>0 DEF JobShape
  <2>3. Len(output[j]) \in Nat BY <2>2, LenProperties
  <2>4. Len(job[j].file) \in Nat BY <2>2, LenProperties DEF JobRow
  <2>5. CASE StartJob(j)
    <3>1. [job[j] EXCEPT !.status = "processing"] \in JobRow BY <2>2 DEF JobRow, JobStatuses
    <3> QED BY <1>0, <1>1, <2>1, <2>5, <3>1, RowWritten DEF StartJob
  <2>6. CASE Progress(j)
    <3> DEFINE n == Len(output[j])
    <3>1. Found(j, n) \in Nat BY <1>0, <2>3, FoundType
    <3>2. [job[j] EXCEPT !.processed = n, !.found = Found(j, n)] \in JobRow
      BY <2>2, <2>3, <3>1 DEF JobRow
    <3>3. updateJob(j, [job[j] EXCEPT !.processed = n, !.found = Found(j, n)], "row")
      BY <2>6 DEF Progress
    <3> QED BY <1>0, <1>1, <2>1, <3>2, <3>3, RowWritten
  <2>7. CASE Complete(j)
    <3> DEFINE n == Len(job[j].file)
               row == [job[j] EXCEPT !.status = "complete", !.processed = n,
                                     !.found = Found(j, n), !.url = TRUE]
    <3>1. Found(j, n) \in Nat BY <1>0, <2>4, FoundType
    <3>2. row \in JobRow
      BY <2>2, <2>4, <3>1 DEF JobRow, JobStatuses
    <3>3. updateJob(j, row, "answered")
      BY <2>7 DEF Complete
    <3> QED BY <1>0, <1>1, <2>1, <3>2, <3>3, RowWritten
  <2>8. CASE RecordFailure(j)
    <3>1. [job[j] EXCEPT !.status = "failed"] \in JobRow BY <2>2 DEF JobRow, JobStatuses
    <3>2. job' = job \/ job' = [job EXCEPT ![j] = [job[j] EXCEPT !.status = "failed"]]
      BY <1>0, <2>8 DEF RecordFailure, JobShape
    <3> QED BY <1>1, <2>1, <3>1, <3>2
  <2>9. CASE NextRow(j) \/ uploadResultCsv(j)
    BY <1>2, <2>1, <2>9 DEF NextRow, uploadResultCsv
  <2> QED BY <1>5, <2>5, <2>6, <2>7, <2>8, <2>9 DEF Work
<1>6. ASSUME NEW s \in Singles, NEW q \in Asked, enforceDailyLookupLimit(s, q)
      PROVE  JobShape'
  BY <1>2, <1>6 DEF enforceDailyLookupLimit
<1>7. CASE UNCHANGED vars BY <1>2, <1>7 DEF vars
<1>8. ASSUME NEW p \in Providers, NEW priority, SaveProvider(p, priority)
      PROVE  JobShape'
  BY <1>2, <1>8 DEF SaveProvider
<1>9. ASSUME NEW old \in cache, Expire(old)
      PROVE  JobShape'
  BY <1>2, <1>9 DEF Expire
<1>10. CASE Midnight \/ Restart BY <1>2, <1>10 DEF Midnight, Restart
<1> QED BY <1>3, <1>4, <1>5, <1>6, <1>7, <1>8, <1>9, <1>10 DEF Next, DeleteProvider

LEMMA ShapeInitially == EnrichmentInit => Shape
<1>1. NoJob \in JobRow
  BY DEF NoJob, JobRow, JobStatuses
<1> QED BY <1>1 DEF EnrichmentInit, Shape, LookupShape, JobShape, At, AtRest,
                    SinglePlaces, JobPlaces, Agents

LEMMA ShapeHolds == Spec => []Shape
<1>1. Shape /\ [Next]_vars => Shape'
  BY LookupShapeKept, JobShapeKept DEF Shape
<1> QED BY <1>1, ShapeInitially, PTL DEF Spec

-----------------------------------------------------------------------------
(* The daily limit.                                                          *)

LEMMA ShrinkFacts ==
    ASSUME NEW L, NEW O, NEW L2, NEW O2, IsFiniteSet(L), IsFiniteSet(O),
           L2 \subseteq L \union O, O2 \subseteq O
    PROVE  /\ IsFiniteSet(L2) /\ IsFiniteSet(O2)
           /\ Cardinality(O2) <= Cardinality(O)
           /\ Cardinality(L2 \union O2) <= Cardinality(L \union O)
           /\ Cardinality(O) \in Nat /\ Cardinality(O2) \in Nat
           /\ Cardinality(L \union O) \in Nat /\ Cardinality(L2 \union O2) \in Nat
<1>1. IsFiniteSet(L \union O) BY FS_Union
<1>2. L2 \union O2 \subseteq L \union O OBVIOUS
<1>3. IsFiniteSet(L2) BY <1>1, FS_Subset
<1>4. IsFiniteSet(O2) /\ Cardinality(O2) <= Cardinality(O) BY FS_Subset
<1>5. /\ IsFiniteSet(L2 \union O2)
      /\ Cardinality(L2 \union O2) <= Cardinality(L \union O)
  BY <1>1, <1>2, FS_Subset
<1> QED BY <1>1, <1>3, <1>4, <1>5, FS_CardinalityType

LEMMA AddFacts ==
    ASSUME NEW L, NEW e, IsFiniteSet(L)
    PROVE  /\ IsFiniteSet(L \union {e})
           /\ Cardinality(L) \in Nat /\ Cardinality(L \union {e}) \in Nat
           /\ Cardinality(L \union {e}) <= Cardinality(L) + 1
<1>1. IsFiniteSet(L \union {e}) BY FS_AddElement
<1>2. /\ Cardinality(L) \in Nat /\ Cardinality(L \union {e}) \in Nat
  BY <1>1, FS_CardinalityType
<1>3. \/ Cardinality(L \union {e}) = Cardinality(L) + 1
      \/ Cardinality(L \union {e}) = Cardinality(L)
  BY FS_AddElement
<1> QED BY <1>1, <1>2, <1>3

\* No one else is open, and who gets a row was.
LEMMA LimitKept ==
    ASSUME LimitInv, OpenSingles' \subseteq OpenSingles, peak' = peak,
           \/ used' = used /\ logged' = logged
           \/ used' = used + 1 /\ logged' = logged
           \/ /\ used' = used + 1
              /\ \E s \in OpenSingles : logged' = logged \union {s}
           \/ used' = 0 /\ logged' = {}
    PROVE  LimitInv'
<1>1. OpenSingles \subseteq Singles /\ logged \subseteq Singles
  BY DEF OpenSingles, LimitInv
<1>2. logged' \subseteq logged \union OpenSingles OBVIOUS
<1>3. IsFiniteSet(logged) /\ IsFiniteSet(OpenSingles) BY DEF LimitInv
<1> DEFINE O == OpenSingles
           L == logged
           O2 == OpenSingles'
           L2 == logged'
<1>4. /\ IsFiniteSet(L2) /\ IsFiniteSet(O2)
      /\ Cardinality(O2) <= Cardinality(O)
      /\ Cardinality(L2 \union O2) <= Cardinality(L \union O)
      /\ Cardinality(O) \in Nat /\ Cardinality(O2) \in Nat
      /\ Cardinality(L \union O) \in Nat /\ Cardinality(L2 \union O2) \in Nat
  <2> HIDE DEF O, L, O2, L2
  <2>1. IsFiniteSet(L) /\ IsFiniteSet(O) BY <1>3 DEF L, O
  <2>2. L2 \subseteq L \union O /\ O2 \subseteq O BY <1>2 DEF L, O, L2, O2
  <2> QED BY <2>1, <2>2, ShrinkFacts
<1>5. used' \in Nat /\ Cardinality(L2) <= used'
  <2>1. used \in Nat /\ Cardinality(L) <= used BY DEF LimitInv
  <2>2. Cardinality(L) \in Nat BY <1>3, FS_CardinalityType
  <2>3. CASE used' = used /\ logged' = logged BY <2>1, <2>3
  <2>4. CASE used' = used + 1 /\ logged' = logged BY <2>1, <2>2, <2>4
  <2>5. CASE /\ used' = used + 1
             /\ \E s \in OpenSingles : logged' = logged \union {s}
    <3>1. PICK s \in OpenSingles : logged' = logged \union {s} BY <2>5
    <3>2. /\ Cardinality(L \union {s}) \in Nat
          /\ Cardinality(L \union {s}) <= Cardinality(L) + 1
      BY <1>3, AddFacts
    <3>3. L2 = L \union {s} /\ used' = used + 1 BY <2>5, <3>1
    <3> DEFINE c == Cardinality(L)
               d == Cardinality(L \union {s})
    <3>4. Cardinality(L2) = d BY <3>3
    <3> HIDE DEF c, d, L2
    <3> QED BY <2>1, <2>2, <3>2, <3>3, <3>4 DEF c, d
  <2>6. CASE used' = 0 /\ logged' = {} BY <2>6, FS_EmptySet
  <2> QED BY <2>3, <2>4, <2>5, <2>6
<1>6. L2 \subseteq Singles BY <1>1, <1>2
<1>7. /\ peak \in Nat /\ Cardinality(O) <= peak /\ Limit \in Nat
      /\ Cardinality(L \union O) <= Limit - 1 + peak
  BY EnrichmentAssumption DEF LimitInv
<1>8. /\ Cardinality(O2) <= peak' /\ Cardinality(L2 \union O2) <= Limit - 1 + peak'
  <2> HIDE DEF O, L, O2, L2
  <2> QED BY <1>4, <1>7
<1> QED BY <1>4, <1>5, <1>6, <1>7, <1>8 DEF LimitInv

\* Who is let in finds fewer rows than the limit.
LEMMA LimitOfEnforce ==
    ASSUME LookupShape, LimitInv, NEW s \in Singles, NEW q \in Asked,
           enforceDailyLookupLimit(s, q)
    PROVE  LimitInv'
<1>0. s \in Agents BY DEF Agents
<1>1. used' = used /\ logged' = logged BY DEF enforceDailyLookupLimit
<1>2. /\ lookup[s].at = "idle" /\ Alone(s)
      /\ \/ lookup'[s] = At("failed") /\ peak' = peak
         \/ /\ lookup'[s] = Begin(s, q) /\ ~(used >= Limit)
            /\ peak' = IF Cardinality(OpenSingles) + 1 > peak
                       THEN Cardinality(OpenSingles) + 1 ELSE peak
  BY EnforceMoves
<1>3. CASE lookup'[s] = At("failed") /\ peak' = peak
  <2>1. OpenSingles' \subseteq OpenSingles
    BY <1>2, <1>3 DEF OpenSingles, Open, Alone, Agents, At
  <2> QED BY <1>1, <1>3, <2>1, LimitKept
<1>4. CASE /\ ~(used >= Limit)
           /\ peak' = IF Cardinality(OpenSingles) + 1 > peak
                      THEN Cardinality(OpenSingles) + 1 ELSE peak
  <2>1. OpenSingles' \subseteq OpenSingles \union {s}
    BY <1>2 DEF OpenSingles, Open, Alone, Agents
  <2> DEFINE O == OpenSingles
             L == logged
             O2 == OpenSingles'
             o == Cardinality(O)
             ol == Cardinality(L)
  <2>2. /\ IsFiniteSet(L) /\ IsFiniteSet(O) /\ L \subseteq Singles
        /\ used \in Nat /\ peak \in Nat /\ ol <= used /\ o <= peak
    BY DEF LimitInv
  <2> DEFINE O1 == O \union {s}
             o1 == Cardinality(O1)
             u == Cardinality(L \union O1)
             o2 == Cardinality(O2)
             u2 == Cardinality(L \union O2)
  <2> HIDE DEF O, L, O2
  <2>3. IsFiniteSet(O1) /\ o \in Nat /\ o1 \in Nat /\ o1 <= o + 1
    BY <2>2, AddFacts
  <2>4. u <= ol + o1 /\ ol \in Nat
    <3> HIDE DEF O1
    <3>1. IsFiniteSet(L \cap O1) BY <2>2, FS_Intersection
    <3>2. /\ u = ol + o1 - Cardinality(L \cap O1)
          /\ Cardinality(L \cap O1) \in Nat /\ ol \in Nat
      BY <2>2, <2>3, <3>1, FS_Union, FS_CardinalityType
    <3> DEFINE c == Cardinality(L \cap O1)
    <3> HIDE DEF c, u, ol, o1
    <3> QED BY <2>3, <3>2 DEF c
  <2>5. /\ IsFiniteSet(O2) /\ o2 <= o1 /\ u2 <= u
        /\ o2 \in Nat /\ u \in Nat /\ u2 \in Nat
    <3>1. L \subseteq L \union O1 /\ O2 \subseteq O1 BY <2>1 DEF O, O2
    <3> HIDE DEF O1
    <3> QED BY <2>2, <2>3, <3>1, ShrinkFacts
  <2>6. Limit \in Nat BY EnrichmentAssumption
  <2>7. peak' = IF o + 1 > peak THEN o + 1 ELSE peak BY <1>4 DEF O
  <2>8. peak' \in Nat /\ o2 <= peak' /\ u2 <= Limit - 1 + peak'
    <3> HIDE DEF o, ol, o1, u, o2, u2
    <3> QED BY <1>4, <2>2, <2>3, <2>4, <2>5, <2>6, <2>7
  <2> QED BY <1>1, <2>2, <2>5, <2>8 DEF LimitInv, O, L, O2
<1> QED BY <1>2, <1>3, <1>4

LEMMA LimitPreserved ==
    ASSUME Shape, LimitInv, [Next]_vars
    PROVE  LimitInv'
<1>0. LookupShape /\ Singles \intersect Jobs = {}
  BY EnrichmentAssumption DEF Shape
<1>1. ASSUME NEW s \in Singles, NEW q \in Asked, enforceDailyLookupLimit(s, q)
      PROVE  LimitInv'
  BY <1>0, <1>1, LimitOfEnforce
<1>2. ASSUME OpenSingles' \subseteq OpenSingles, used' = used, logged' = logged,
             peak' = peak
      PROVE  LimitInv'
  BY <1>2, LimitKept
<1>3. ASSUME NEW a \in Agents, EnrichStep(a)
      PROVE  LimitInv'
  <2>1. OnRow(lookup[a]) /\ Alone(a)
    BY <1>0, <1>3, EnrichStepMoves
  <2>2. Open(a) BY <2>1 DEF OnRow, RowPlaces, Open
  <2>3. OpenSingles' \subseteq OpenSingles
    BY <2>1, <2>2 DEF OpenSingles, Open, Alone, Agents
  <2>4. peak' = peak
    BY <1>3 DEF EnrichStep, getCache, getUserProviders, findEmail, setCache,
                logUsage, history
  <2>5. CASE logUsage(a)
    <3>1. \/ used' = used /\ logged' = logged
          \/ used' = used + 1 /\ logged' = logged \union ({a} \intersect Singles)
      BY <2>5 DEF logUsage
    <3>2. \/ used' = used /\ logged' = logged
          \/ used' = used + 1 /\ logged' = logged
          \/ used' = used + 1 /\ \E s \in OpenSingles : logged' = logged \union {s}
      BY <2>2, <3>1 DEF OpenSingles
    <3> QED BY <2>3, <2>4, <3>2, LimitKept
  <2>6. CASE ~logUsage(a)
    <3>1. used' = used /\ logged' = logged
      BY <1>3, <2>6 DEF EnrichStep, getCache, getUserProviders, findEmail, setCache,
                        history
    <3> QED BY <1>2, <2>3, <2>4, <3>1
  <2> QED BY <2>5, <2>6
<1>4. ASSUME Crash PROVE OpenSingles' \subseteq OpenSingles
  BY <1>0, <1>4, CrashMoves DEF OpenSingles, Open, Agents, At
<1>5. ASSUME NEW j \in Jobs, Work(j)
      PROVE  LimitInv'
  <2>1. OpenSingles' \subseteq OpenSingles
    <3>1. Alone(j) \/ Crash BY <1>5, WorkMoves
    <3>2. CASE Alone(j) BY <1>0, <3>2 DEF OpenSingles, Open, Alone, Agents
    <3> QED BY <1>4, <3>1, <3>2
  <2>2. used' = used /\ logged' = logged /\ peak' = peak
    BY <1>5 DEF Work, StartJob, NextRow, Progress, uploadResultCsv, Complete,
                RecordFailure, history
  <2> QED BY <1>2, <2>1, <2>2
<1>6. ASSUME NEW j \in Jobs, NEW file \in Files, createBatchJob(j, file)
      PROVE  LimitInv'
  <2>1. Alone(j) BY <1>0, <1>6, CreateMoves
  <2>2. OpenSingles' \subseteq OpenSingles
    BY <1>0, <2>1 DEF OpenSingles, Open, Alone, Agents
  <2> QED BY <1>2, <1>6, <2>2 DEF createBatchJob
<1>7. ASSUME NEW old \in cache, Expire(old)
      PROVE  LimitInv'
  <2>1. OpenSingles' \subseteq OpenSingles
    BY <1>0, <1>7, ExpireMoves DEF OpenSingles, Open, Agents
  <2> QED BY <1>2, <1>7, <2>1 DEF Expire
<1>8. ASSUME lookup' = lookup PROVE OpenSingles' \subseteq OpenSingles
  BY <1>8 DEF OpenSingles, Open
<1>9. CASE Midnight
  <2>1. used' = 0 /\ logged' = {} /\ peak' = peak /\ lookup' = lookup
    BY <1>9 DEF Midnight
  <2> QED BY <1>8, <2>1, LimitKept
<1>10. CASE Restart
  BY <1>2, <1>4, <1>10 DEF Restart
<1>11. ASSUME NEW p \in Providers, NEW priority, SaveProvider(p, priority)
       PROVE  LimitInv'
  BY <1>2, <1>8, <1>11 DEF SaveProvider, history
<1>12. CASE UNCHANGED vars
  BY <1>2, <1>8, <1>12 DEF vars
<1> QED BY <1>1, <1>3, <1>5, <1>6, <1>7, <1>9, <1>10, <1>11, <1>12
        DEF Next, DeleteProvider

\* The single lookups with a row of today exceed the daily limit (rateLimit.js) by
\* at most as many as were open at once, less one, however they interleave.
THEOREM OverrunBounded == Spec => []LimitOverrunBounded
<1>1. EnrichmentInit => LimitInv
  <2> SUFFICES ASSUME EnrichmentInit PROVE LimitInv
    OBVIOUS
  <2>1. OpenSingles = {} /\ logged = {} /\ used = 0 /\ peak = 0
    BY DEF EnrichmentInit, OpenSingles, Open, At, Agents
  <2>2. logged \union OpenSingles = {} BY <2>1
  <2>3. Cardinality({}) = 0 /\ IsFiniteSet({}) BY FS_EmptySet
  <2>4. Limit \in Nat /\ Limit # 0 BY EnrichmentAssumption
  <2>5. 0 <= Limit - 1 + 0 BY <2>4
  <2> QED BY <2>1, <2>2, <2>3, <2>5 DEF LimitInv
<1>2. Shape /\ LimitInv /\ [Next]_vars => LimitInv'
  BY LimitPreserved
<1>3. LimitInv => LimitOverrunBounded
  <2> SUFFICES ASSUME LimitInv PROVE LimitOverrunBounded
    OBVIOUS
  <2> DEFINE O == OpenSingles
             L == logged
  <2>1. /\ IsFiniteSet(L) /\ IsFiniteSet(O) /\ peak \in Nat /\ Limit \in Nat
        /\ Cardinality(L \union O) <= Limit - 1 + peak
    BY EnrichmentAssumption DEF LimitInv
  <2> HIDE DEF O, L
  <2>2. IsFiniteSet(L \union O) /\ L \subseteq L \union O BY <2>1, FS_Union
  <2>3. /\ Cardinality(L) <= Cardinality(L \union O)
        /\ Cardinality(L) \in Nat /\ Cardinality(L \union O) \in Nat
    BY <2>1, <2>2, FS_Subset, FS_CardinalityType
  <2>4. Cardinality(L) <= Limit - 1 + peak
    <3> DEFINE c == Cardinality(L)
               d == Cardinality(L \union O)
    <3> HIDE DEF c, d
    <3> QED BY <2>1, <2>3 DEF c, d
  <2> QED BY <2>4 DEF LimitOverrunBounded, L
<1> QED BY <1>1, <1>2, <1>3, ShapeHolds, PTL DEF Spec

-----------------------------------------------------------------------------
(* What is paid for.                                                         *)

\* Alone or in a file, a person has one key, but for the URLs KeysAgree excludes.
LEMMA OneKey ==
    ASSUME NEW a \in Agents, NEW b \in Agents, NEW q \in People,
           ~(Given[q].url.slashes > 2)
    PROVE  key[a][q] = key[b][q]
<1>1. Given[q] \in Person BY EnrichmentAssumption
<1>2. Given[q].url.slashes \in Nat
  <2>1. Given[q].url \in Url BY <1>1 DEF Person
  <2> QED BY <2>1 DEF Url
<1>3. Given[q].url.slashes <= 2 BY <1>2
<1> DEFINE once == normalizeCandidate(Given[q])
           twice == normalizeCandidate(once)
<1>4. lookupKey(twice) = lookupKey(once) BY <1>1, <1>3, KeysAgree
<1>5. ASSUME NEW c \in Agents PROVE candidate[c][q] = once \/ candidate[c][q] = twice
  BY DEF candidate, mapCsvRow
<1>6. ASSUME NEW c \in Agents PROVE key[c][q] = lookupKey(candidate[c][q])
  BY DEF key
<1> HIDE DEF once, twice
<1>7. ASSUME NEW c \in Agents PROVE key[c][q] = lookupKey(once)
  BY <1>4, <1>5, <1>6
<1> QED BY <1>7

LEMMA PaidElsewhere ==
    ASSUME NEW b \in Agents, PaidAt(b), lookup'[b] = lookup[b], cache \subseteq cache'
    PROVE  PaidAt(b)'
  BY DEF PaidAt, KeyOf, Cached

LEMMA PaidAtRest ==
    ASSUME NEW a \in Agents, lookup'[a].at \notin RowPlaces
    PROVE  PaidAt(a)'
  BY DEF PaidAt

LEMMA PaidAtBegin ==
    ASSUME AnsweredCached, NEW a \in Agents, NEW q \in People,
           lookup'[a] = Begin(a, q), cache' = cache
    PROVE  PaidAt(a)'
<1>1. CASE /\ Begin(a, q).at = "cache" /\ Begin(a, q).person = q
           /\ Begin(a, q).known = IF q \in answered THEN "yes" ELSE "no"
  <2>1. lookup'[a].known = "yes" => Cached(q)' BY <1>1 DEF AnsweredCached, Cached
  <2> QED BY <1>1, <2>1 DEF PaidAt, PastCache
<1>2. CASE Begin(a, q) = At(IF a \in Jobs THEN "fail" ELSE "failed")
  BY <1>2 DEF PaidAt, At, RowPlaces
<1> QED BY <1>1, <1>2, BeginFacts

\* Past the cache a lookup stays known or not.
LEMMA PaidPastCache ==
    ASSUME NEW a \in Agents, PaidAt(a), OnRow(lookup[a]), Stays(a),
           cache \subseteq cache',
           lookup[a].at \in PastCache, lookup'[a].at \in PastCache,
           lookup'[a].at = "log found" => KeyOf(a) \in cache'
    PROVE  PaidAt(a)'
<1>1. lookup[a].at \in RowPlaces /\ lookup'[a].at # "log hit"
  BY DEF OnRow, PastCache
<1>2. KeyOf(a)' = KeyOf(a) BY DEF KeyOf, Stays
<1>3. Cached(lookup[a].person) => Cached(lookup[a].person)' BY DEF Cached, Stays
<1>4. lookup'[a].person = lookup[a].person /\ lookup'[a].known = lookup[a].known
  BY DEF Stays
<1> QED BY <1>1, <1>2, <1>3, <1>4 DEF PaidAt, Cached

LEMMA PaidByStep ==
    ASSUME LookupShape, PaidInv, NEW a \in Agents, EnrichStep(a)
    PROVE  PaidInv'
<1>1. OnRow(lookup[a]) /\ Alone(a) /\ RowStep(a)
  BY EnrichStepMoves
<1>2. /\ PaidAt(a) /\ AnsweredCached /\ lookup[a].at \in RowPlaces
      /\ lookup[a].person \in People
  BY <1>1 DEF PaidInv, OnRow
<1>3. cache \subseteq cache'
  BY DEF EnrichStep, getCache, getUserProviders, findEmail, setCache, logUsage
<1>4. RowEnds(a) => PaidAt(a)'
  <2>1. RowEnds(a) => lookup'[a].at \notin RowPlaces
    BY DEF RowEnds, AtRest, RowPlaces
  <2> QED BY <2>1, PaidAtRest
<1>5. \A q : Cached(q) => Cached(q)'
  BY <1>3 DEF Cached
<1>6. answered' = answered => AnsweredCached'
  BY <1>2, <1>5 DEF AnsweredCached
<1>7. CASE getCache(a)
  <2>1. lookup[a].at = "cache" /\ cache' = cache /\ answered' = answered
    BY <1>7 DEF getCache, history
  <2>2. \/ Throws(a)
        \/ Goto(a, "log hit") /\ KeyOf(a) \in cache
        \/ Goto(a, "providers") /\ KeyOf(a) \notin cache
    BY <1>7 DEF getCache
  <2>3. ASSUME Throws(a) PROVE PaidAt(a)' BY <1>4, <2>3, ThrowsMoves
  <2>4. ASSUME Goto(a, "log hit"), KeyOf(a) \in cache PROVE PaidAt(a)'
    <3>1. "log hit" \in RowPlaces BY DEF RowPlaces
    <3>2. Stays(a) /\ lookup'[a].at = "log hit" BY <1>1, <2>4, <3>1, GotoStays
    <3>3. KeyOf(a)' \in cache' BY <2>1, <2>4, <3>2 DEF KeyOf, Stays
    <3>4. lookup'[a].known = "yes" => Cached(lookup[a].person)'
      BY <1>2, <2>1, <3>2 DEF PaidAt, Stays, Cached
    <3>5. lookup'[a].person = lookup[a].person BY <3>2 DEF Stays
    <3> QED BY <3>2, <3>3, <3>4, <3>5 DEF PaidAt, PastCache, Cached
  <2>5. ASSUME Goto(a, "providers"), KeyOf(a) \notin cache PROVE PaidAt(a)'
    <3>1. "providers" \in RowPlaces BY DEF RowPlaces
    <3>2. Stays(a) /\ lookup'[a].at = "providers" BY <1>1, <2>5, <3>1, GotoStays
    <3>3. lookup[a].known # "yes" \/ Given[lookup[a].person].url.slashes > 2
      <4> SUFFICES ASSUME lookup[a].known = "yes",
                          ~(Given[lookup[a].person].url.slashes > 2)
                   PROVE  FALSE
        OBVIOUS
      <4>1. PICK b \in Agents : key[b][lookup[a].person] \in cache
        BY <1>2 DEF PaidAt, Cached
      <4>2. key[b][lookup[a].person] = key[a][lookup[a].person]
        BY <1>2, OneKey
      <4> QED BY <2>5, <4>1, <4>2 DEF KeyOf
    <3>4. lookup'[a].known = "yes" => Cached(lookup[a].person)'
      BY <1>2, <2>1, <3>2 DEF PaidAt, Stays, Cached
    <3>5. lookup'[a].person = lookup[a].person /\ lookup'[a].known = lookup[a].known
      BY <3>2 DEF Stays
    <3> QED BY <3>2, <3>3, <3>4, <3>5 DEF PaidAt, Cached
  <2>6. PaidAt(a)' BY <2>2, <2>3, <2>4, <2>5
  <2> QED BY <1>1, <1>2, <1>3, <1>6, <2>1, <2>6, PaidElsewhere DEF PaidInv, Alone
<1>8. CASE getUserProviders(a)
  <2>1. lookup[a].at = "providers" /\ answered' = answered
    BY <1>8 DEF getUserProviders, Answers
  <2>2. ASSUME ~RowEnds(a) PROVE Stays(a) /\ lookup'[a].at = "try"
    BY <1>1, <2>1, <2>2 DEF RowStep
  <2>3. PaidAt(a)'
    BY <1>1, <1>2, <1>3, <1>4, <2>1, <2>2, PaidPastCache DEF PastCache
  <2> QED BY <1>1, <1>2, <1>3, <1>6, <2>1, <2>3, PaidElsewhere DEF PaidInv, Alone
<1>9. CASE findEmail(a)
  <2>1. lookup[a].at = "try" /\ answered' = answered
    BY <1>9 DEF findEmail, history
  <2>2. ASSUME ~RowEnds(a)
        PROVE  Stays(a) /\ lookup'[a].at \in {"save", "log none", "try"}
    BY <1>1, <2>1, <2>2 DEF RowStep
  <2>3. PaidAt(a)'
    BY <1>1, <1>2, <1>3, <1>4, <2>1, <2>2, PaidPastCache DEF PastCache
  <2> QED BY <1>1, <1>2, <1>3, <1>6, <2>1, <2>3, PaidElsewhere DEF PaidInv, Alone
<1>10. CASE setCache(a)
  <2>1. lookup[a].at = "save" /\ answered' = answered
    BY <1>10 DEF setCache, history
  <2>2. \/ Goto(a, "log found") /\ KeyOf(a) \in cache'
        \/ Next_provider(a)
    BY <1>10 DEF setCache, Applied
  <2>3. "log found" \in RowPlaces BY DEF RowPlaces
  <2>4. /\ Stays(a) /\ lookup'[a].at \in {"log found", "log none", "try"}
        /\ lookup'[a].at = "log found" => KeyOf(a) \in cache'
    BY <1>1, <2>2, <2>3, GotoStays, NextProviderMoves
  <2>5. PaidAt(a)'
    BY <1>1, <1>2, <1>3, <2>1, <2>4, PaidPastCache DEF PastCache
  <2> QED BY <1>1, <1>2, <1>3, <1>6, <2>1, <2>5, PaidElsewhere DEF PaidInv, Alone
<1>11. CASE logUsage(a)
  <2>1. lookup[a].at \in {"log hit", "log found", "log none"} /\ cache' = cache
    BY <1>11 DEF logUsage
  <2>2. \/ Answers(a, lookup[a].at # "log none")
        \/ answered' = answered
    BY <1>11 DEF logUsage
  <2>3. AnsweredCached'
    <3>1. CASE answered' = answered BY <1>6, <3>1
    <3>2. CASE Answers(a, lookup[a].at # "log none")
      <4>1. \/ answered' = answered
            \/ /\ lookup[a].at # "log none" /\ lookup[a].known # "expired"
               /\ answered' = answered \union {lookup[a].person}
        BY <3>2 DEF Answers
      <4>2. lookup[a].at # "log none" /\ lookup[a].known # "expired"
               => Cached(lookup[a].person)
        BY <1>2, <2>1 DEF PaidAt, KeyOf, Cached
      <4>3. ASSUME NEW q \in answered' PROVE q \in People /\ Cached(q)
        BY <1>2, <4>1, <4>2, <4>3 DEF AnsweredCached
      <4> QED BY <1>5, <4>3 DEF AnsweredCached
    <3> QED BY <2>2, <3>1, <3>2
  <2>4. \/ RowEnds(a)
        \/ Stays(a) /\ lookup[a].at = "log found" /\ lookup'[a].at \in {"log none", "try"}
    BY <1>1, <2>1 DEF RowStep
  <2>5. PaidAt(a)'
    BY <1>1, <1>2, <1>3, <1>4, <2>4, PaidPastCache DEF PastCache
  <2> QED BY <1>1, <1>2, <1>3, <2>3, <2>5, PaidElsewhere DEF PaidInv, Alone
<1> QED BY <1>7, <1>8, <1>9, <1>10, <1>11 DEF EnrichStep

LEMMA PaidByExpiry ==
    ASSUME LookupShape, PaidInv, NEW old \in cache, Expire(old)
    PROVE  PaidInv'
<1>1. cache' = cache \ {old} BY DEF Expire
<1>2. answered' = {q \in answered : ~\E a \in Agents : old = key[a][q]}
  BY DEF Expire
<1>3. ASSUME NEW q, Cached(q), \A b \in Agents : old # key[b][q]
      PROVE  Cached(q)'
  BY <1>1, <1>3 DEF Cached
<1>4. AnsweredCached'
  BY <1>2, <1>3 DEF PaidInv, AnsweredCached
<1>5. ASSUME NEW a \in Agents PROVE PaidAt(a)'
  <2>1. PaidAt(a) BY DEF PaidInv
  <2>2. CASE ~OnRow(lookup[a])
    <3>1. lookup'[a] = lookup[a] BY <2>2, ExpireMoves
    <3>2. lookup[a].at \notin RowPlaces BY <2>2, RowOf
    <3> QED BY <3>1, <3>2, PaidAtRest
  <2>3. CASE OnRow(lookup[a])
    <3>1. /\ lookup'[a].at = lookup[a].at /\ lookup'[a].person = lookup[a].person
          /\ lookup'[a].known = "expired" \/ lookup'[a].known = lookup[a].known
          /\ \/ lookup'[a].known = "expired"
             \/ \A b \in Agents : old # key[b][lookup[a].person]
      BY <2>3, ExpireMoves
    <3>2. CASE lookup'[a].known = "expired"
      BY <2>1, <3>1, <3>2 DEF PaidAt
    <3>3. CASE /\ lookup'[a].known = lookup[a].known
               /\ \A b \in Agents : old # key[b][lookup[a].person]
      <4>1. KeyOf(a) \in cache => KeyOf(a)' \in cache'
        BY <1>1, <3>1, <3>3 DEF KeyOf
      <4>2. Cached(lookup[a].person) => Cached(lookup[a].person)'
        BY <1>1, <3>1, <3>3 DEF Cached
      <4> QED BY <2>1, <3>1, <3>3, <4>1, <4>2 DEF PaidAt, Cached
    <3> QED BY <3>1, <3>2, <3>3
  <2> QED BY <2>2, <2>3
<1> QED BY <1>4, <1>5 DEF PaidInv

LEMMA PaidPreserved ==
    ASSUME Shape, PaidInv, [Next]_vars
    PROVE  PaidInv'
<1>0. LookupShape /\ Asked \subseteq People BY EnrichmentAssumption DEF Shape
<1>1. ASSUME cache' = cache, answered' = answered, NEW a \in Agents, Alone(a),
             PaidAt(a)'
      PROVE  PaidInv'
  <2>1. AnsweredCached' BY <1>1 DEF PaidInv, AnsweredCached, Cached
  <2> QED BY <1>1, <2>1, PaidElsewhere DEF PaidInv, Alone
<1>2. ASSUME cache' = cache, answered' = answered, NEW a \in Agents, NEW q \in People,
             lookup'[a] = Begin(a, q), Alone(a)
      PROVE  PaidInv'
  BY <1>1, <1>2, PaidAtBegin DEF PaidInv
<1>3. ASSUME NEW s \in Singles, NEW q \in Asked, enforceDailyLookupLimit(s, q)
      PROVE  PaidInv'
  <2>1. s \in Agents /\ q \in People /\ cache' = cache /\ answered' = answered
    BY <1>0, <1>3 DEF Agents, enforceDailyLookupLimit
  <2>2. At("failed").at \notin RowPlaces BY DEF At, RowPlaces
  <2> QED BY <1>0, <1>1, <1>2, <1>3, <2>1, <2>2, EnforceMoves, PaidAtRest
<1>4. ASSUME NEW j \in Jobs, NEW file \in Files, createBatchJob(j, file)
      PROVE  PaidInv'
  <2>1. j \in Agents /\ cache' = cache /\ answered' = answered
    BY <1>4 DEF Agents, createBatchJob
  <2>2. At("failed").at \notin RowPlaces /\ At("start").at \notin RowPlaces
    BY DEF At, RowPlaces
  <2> QED BY <1>0, <1>1, <1>4, <2>1, <2>2, CreateMoves, PaidAtRest
<1>5. ASSUME cache' = cache, answered' = answered, Crash
      PROVE  PaidInv'
  <2>1. At("gone").at \notin RowPlaces BY DEF At, RowPlaces
  <2>2. ASSUME NEW a \in Agents PROVE PaidAt(a)'
    BY <1>0, <1>5, <2>1, CrashMoves, PaidAtRest, PaidElsewhere DEF PaidInv
  <2> QED BY <1>5, <2>2 DEF PaidInv, AnsweredCached, Cached
<1>6. ASSUME NEW j \in Jobs, Work(j)
      PROVE  PaidInv'
  <2>1. j \in Agents /\ cache' = cache /\ answered' = answered
    BY <1>6 DEF Agents, Work, StartJob, NextRow, Progress, uploadResultCsv, Complete,
                RecordFailure, history
  <2>2. CASE Alone(j) /\ AtRest(lookup'[j], JobPlaces)
    <3>1. lookup'[j].at \notin RowPlaces BY <2>2, Disjoint DEF AtRest
    <3> QED BY <1>1, <2>1, <2>2, <3>1, PaidAtRest
  <2>3. CASE /\ Alone(j) /\ Len(output[j]) + 1 <= Len(job[j].file)
             /\ lookup'[j] = Begin(j, job[j].file[Len(output[j]) + 1])
    BY <1>2, <2>1, <2>3, RowIsPerson DEF Shape
  <2> QED BY <1>5, <1>6, <2>1, <2>2, <2>3, WorkMoves
<1>7. ASSUME NEW a \in Agents, EnrichStep(a)
      PROVE  PaidInv'
  BY <1>0, <1>7, PaidByStep
<1>8. ASSUME NEW old \in cache, Expire(old)
      PROVE  PaidInv'
  BY <1>0, <1>8, PaidByExpiry
<1>9. ASSUME cache' = cache, answered' = answered, lookup' = lookup
      PROVE  PaidInv'
  BY <1>9 DEF PaidInv, AnsweredCached, Cached, PaidAt, KeyOf
<1>10. ASSUME NEW p \in Providers, NEW priority, SaveProvider(p, priority)
       PROVE  PaidInv'
  BY <1>9, <1>10 DEF SaveProvider, history
<1>11. CASE Midnight BY <1>9, <1>11 DEF Midnight
<1>12. CASE Restart BY <1>5, <1>12 DEF Restart
<1>13. CASE UNCHANGED vars BY <1>9, <1>13 DEF vars
<1> QED BY <1>3, <1>4, <1>6, <1>7, <1>8, <1>10, <1>11, <1>12, <1>13
        DEF Next, DeleteProvider

\* A lookup that begins after its person was answered with an email does not ask a
\* provider before the email expires, in a file as well as alone (waterfall.js,
\* cache.js).  It says nothing of lookups under way when the other was answered.
THEOREM PaidOnce == Spec => []EmailsPaidOnce
<1>1. EnrichmentInit => PaidInv
  <2> SUFFICES ASSUME EnrichmentInit PROVE PaidInv
    OBVIOUS
  <2>1. answered = {} /\ \A a \in Agents : lookup[a].at = "idle"
    BY DEF EnrichmentInit, At
  <2> QED BY <2>1 DEF PaidInv, AnsweredCached, PaidAt, RowPlaces
<1>2. Shape /\ PaidInv /\ [Next]_vars => PaidInv'
  BY PaidPreserved
<1>3. PaidInv => EmailsPaidOnce
  BY DEF PaidInv, PaidAt, EmailsPaidOnce, RowPlaces, PastCache
<1> QED BY <1>1, <1>2, <1>3, ShapeHolds, PTL DEF Spec

-----------------------------------------------------------------------------
(* What providers are asked.                                                 *)

\* A worker asks providers for a person what a single lookup asks (batchProcessor.js,
\* normalizer.js), but for the cases BatchAsksTheSame names.
THEOREM AskedAlike == Spec => []BatchAsksTheSame
<1>1. Shape => BatchAsksTheSame
  <2> SUFFICES ASSUME Shape, NEW j \in Jobs, lookup[j].at = "try"
               PROVE  LET q == lookup[j].person
                          single == normalizeCandidate(Given[q])
                          p == Head(lookup[j].todo)
                      IN  \/ Sent(p, candidate[j][q]) = Sent(p, single)
                          \/ Missing \in {single.first, single.last}
                          \/ Given[q].domain = Blank
                          \/ Given[q].url.slashes > 1
                          \/ p = "rocketreach" /\ Given[q].gap
    BY DEF BatchAsksTheSame
  <2> DEFINE q == lookup[j].person
             single == normalizeCandidate(Given[q])
             p == Head(lookup[j].todo)
  <2>1. j \in Agents /\ q \in People
    <3>1. j \in Agents /\ lookup[j].at \in RowPlaces BY DEF Agents, RowPlaces
    <3>2. OnRow(lookup[j]) BY <3>1, RowOf DEF Shape
    <3> QED BY <3>1, <3>2 DEF OnRow
  <2>2. candidate[j][q] = normalizeCandidate(single)
    BY <2>1 DEF candidate, mapCsvRow
  <2>3. Given[q] \in Person BY <2>1, EnrichmentAssumption
  <2>4. Given[q].url.slashes \in Nat
    <3>1. Given[q].url \in Url BY <2>3 DEF Person
    <3> QED BY <3>1 DEF Url
  <2>5. CASE \/ Missing \in {single.first, single.last}
             \/ Given[q].domain = Blank
             \/ Given[q].url.slashes > 1
    BY <2>5
  <2>6. CASE /\ single.first # Missing /\ single.last # Missing
             /\ Given[q].domain # Blank /\ Given[q].url.slashes <= 1
    <3> DEFINE twice == candidate[j][q]
    <3>1. /\ twice.first = single.first /\ twice.last = single.last
          /\ ~Given[q].gap => twice.full = single.full
          /\ twice.company = single.company /\ twice.domain = single.domain
          /\ twice.url = single.url
      BY <2>2, <2>3, <2>6, AsksTheSame
    <3> HIDE DEF single, twice
    <3>2. p # "rocketreach" => Sent(p, twice) = Sent(p, single)
      BY <3>1 DEF Sent, apollo, hunter, snov, rocketreach, prospeo, dropcontact
    <3>3. ~Given[q].gap => Sent(p, twice) = Sent(p, single)
      BY <3>1 DEF Sent, apollo, hunter, snov, rocketreach, prospeo, dropcontact
    <3> QED BY <3>2, <3>3 DEF single, twice
  <2> QED BY <2>4, <2>5, <2>6
<1> QED BY <1>1, ShapeHolds, PTL

-----------------------------------------------------------------------------
(* What a job shows.                                                         *)

LEMMA NextMultiple ==
    ASSUME NEW a \in Nat, NEW p \in Nat \ {0}, a % p = 0
    PROVE  (a + p) % p = 0
<1>1. PICK k \in Int : a = k * p + 0
  <2>1. a = (a \div p) * p + (a % p) OBVIOUS
  <2>2. a \div p \in Int OBVIOUS
  <2> QED BY <2>1, <2>2
<1>2. a + p = (k + 1) * p + 0
  BY <1>1
<1>3. ASSUME NEW b \in Nat, NEW m \in Int, NEW r \in 0..(p - 1), b = m * p + r
      PROVE  b % p = r
  BY <1>3
<1>4. 0 \in 0..(p - 1) /\ k + 1 \in Int /\ a + p \in Nat OBVIOUS
<1> QED BY <1>2, <1>3, <1>4

LEMMA RowNumbers ==
    ASSUME NEW row \in JobRow
    PROVE  /\ row.processed \in Nat /\ Len(row.file) \in Nat
           /\ ProgressEvery \in Nat \ {0} /\ row.url \in BOOLEAN
<1>1. row.file \in Seq(People) BY DEF JobRow
<1> QED BY <1>1, LenProperties, EnrichmentAssumption DEF JobRow

\* Where a worker may go, its row unchanged.
LEMMA FitsNext ==
    ASSUME NEW row \in JobRow, NEW n \in Nat, NEW found, NEW at, RowFits(row, n, found, at)
    PROVE  /\ RowFits(row, n, found, "fail") /\ RowFits(row, n, found, "gone")
           /\ \A to \in RowPlaces : at \in RowPlaces => RowFits(row, n, found, to)
           /\ at = "row" /\ n + 1 <= Len(row.file) => RowFits(row, n, found, "cache")
           /\ at = "row" /\ n + 1 > Len(row.file) => RowFits(row, n, found, "upload")
           /\ at = "upload" => RowFits(row, n, found, "complete")
<1>1. /\ row.processed \in Nat /\ Len(row.file) \in Nat
      /\ ProgressEvery \in Nat \ {0} /\ row.url \in BOOLEAN
  BY RowNumbers
<1>2. "cache" \in RowPlaces /\ \A p \in RowPlaces : p \notin JobPlaces
  BY Disjoint DEF RowPlaces
<1>3. /\ RowFits(row, n, found, "fail") /\ RowFits(row, n, found, "gone")
  BY <1>2 DEF RowFits, JobPlaces, SinglePlaces
<1>4. ASSUME NEW to \in RowPlaces, at \in RowPlaces
      PROVE  RowFits(row, n, found, to)
  BY <1>2, <1>4 DEF RowFits, JobPlaces, SinglePlaces
<1>5. ASSUME at = "row", n + 1 <= Len(row.file)
      PROVE  RowFits(row, n, found, "cache")
  BY <1>1, <1>2, <1>5 DEF RowFits
<1>6. ASSUME at = "row", n + 1 > Len(row.file)
      PROVE  RowFits(row, n, found, "upload")
  BY <1>1, <1>2, <1>6 DEF RowFits, JobPlaces
<1>7. ASSUME at = "upload"
      PROVE  RowFits(row, n, found, "complete")
  BY <1>1, <1>2, <1>7 DEF RowFits, JobPlaces
<1> QED BY <1>3, <1>4, <1>5, <1>6, <1>7

\* A row is done.
LEMMA FitsRowDone ==
    ASSUME NEW row \in JobRow, NEW n \in Nat, NEW found, NEW at \in RowPlaces,
           RowFits(row, n, found, at)
    PROVE  RowFits(row, n + 1, found,
                   IF (n + 1) % ProgressEvery = 0 \/ n + 1 = Len(row.file)
                   THEN "progress" ELSE "row")
<1> DEFINE p == row.processed
           m == Len(row.file)
           P == ProgressEvery
<1>1. p \in Nat /\ m \in Nat /\ P \in Nat \ {0} /\ row.url \in BOOLEAN
  BY RowNumbers
<1>2. \A q \in RowPlaces : q \notin JobPlaces BY Disjoint
<1>3. /\ p <= n /\ n < m /\ n - p < P /\ row.found = found
      /\ Reportable(p, m) /\ (row.status = "complete" => row.url)
  BY DEF RowFits
<1>4. ~row.url
  BY <1>2 DEF RowFits, JobPlaces, SinglePlaces
<1>5. p % P = 0
  BY <1>1, <1>3 DEF Reportable
<1>6. (p + P) % P = 0
  BY <1>1, <1>5, NextMultiple
<1>7. ASSUME ~((n + 1) % P = 0) PROVE n + 1 - p < P
  <2>1. n + 1 # p + P BY <1>6, <1>7
  <2> HIDE DEF p, m, P
  <2> QED BY <1>1, <1>3, <2>1
<1>8. /\ p <= n + 1 /\ n + 1 <= m /\ n + 1 - p <= P
  <2> HIDE DEF p, m, P
  <2> QED BY <1>1, <1>3
<1>9. CASE (n + 1) % P = 0 \/ n + 1 = m
  <2>1. RowFits(row, n + 1, found, "progress")
    <3>1. "progress" \notin RowPlaces BY DEF RowPlaces
    <3>2. Reportable(n + 1, m) BY <1>9 DEF Reportable
    <3> QED BY <1>1, <1>3, <1>4, <1>8, <3>1, <3>2 DEF RowFits
  <2> QED BY <1>9, <2>1
<1>10. CASE ~((n + 1) % P = 0 \/ n + 1 = m)
  <2>1. RowFits(row, n + 1, found, "row")
    <3>1. "row" \notin RowPlaces BY DEF RowPlaces
    <3>2. n + 1 - p < P BY <1>7, <1>10
    <3> QED BY <1>1, <1>3, <1>4, <1>8, <3>1, <3>2 DEF RowFits
  <2> QED BY <1>10, <2>1
<1> QED BY <1>9, <1>10

\* The worker writes the row.
LEMMA FitsStart ==
    ASSUME NEW row \in JobRow, NEW n \in Nat, NEW found, RowFits(row, n, found, "start"),
           NEW to \in {"row", "fail"}
    PROVE  RowFits([row EXCEPT !.status = "processing"], n, found, to)
<1> DEFINE new == [row EXCEPT !.status = "processing"]
<1>1. /\ new.processed = row.processed /\ new.file = row.file /\ new.found = row.found
      /\ new.url = row.url /\ new.status = "processing"
  BY DEF JobRow
<1>2. /\ row.processed \in Nat /\ Len(row.file) \in Nat
      /\ ProgressEvery \in Nat \ {0} /\ row.url \in BOOLEAN
  BY RowNumbers
<1>3. "row" \notin RowPlaces /\ "fail" \notin RowPlaces BY DEF RowPlaces
<1> HIDE DEF new
<1>4. RowFits(new, n, found, to)
  BY <1>1, <1>2, <1>3 DEF RowFits
<1> QED BY <1>4 DEF new

LEMMA FitsProgress ==
    ASSUME NEW row \in JobRow, NEW n \in Nat, NEW found, NEW now,
           RowFits(row, n, found, "progress"), NEW to \in {"row", "fail"}
    PROVE  RowFits([row EXCEPT !.processed = n, !.found = now], n, now, to)
<1> DEFINE new == [row EXCEPT !.processed = n, !.found = now]
<1>1. /\ new.processed = n /\ new.file = row.file /\ new.found = now
      /\ new.url = row.url /\ new.status = row.status
  BY DEF JobRow
<1>2. /\ row.processed \in Nat /\ Len(row.file) \in Nat
      /\ ProgressEvery \in Nat \ {0} /\ row.url \in BOOLEAN
  BY RowNumbers
<1>3. "row" \notin RowPlaces /\ "fail" \notin RowPlaces BY DEF RowPlaces
<1> HIDE DEF new
<1>4. RowFits(new, n, now, to)
  BY <1>1, <1>2, <1>3 DEF RowFits
<1> QED BY <1>4 DEF new

LEMMA FitsComplete ==
    ASSUME NEW row \in JobRow, NEW n \in Nat, NEW found, NEW now,
           RowFits(row, n, found, "complete"), NEW to \in {"answered", "fail"}
    PROVE  RowFits([row EXCEPT !.status = "complete", !.processed = Len(row.file),
                               !.found = now, !.url = TRUE], n, now, to)
<1> DEFINE new == [row EXCEPT !.status = "complete", !.processed = Len(row.file),
                              !.found = now, !.url = TRUE]
<1>1. /\ new.processed = Len(row.file) /\ new.file = row.file /\ new.found = now
      /\ new.url = TRUE /\ new.status = "complete"
  BY DEF JobRow
<1>2. /\ row.processed \in Nat /\ Len(row.file) \in Nat
      /\ ProgressEvery \in Nat \ {0} /\ row.url \in BOOLEAN
  BY RowNumbers
<1>3. "answered" \notin RowPlaces /\ "fail" \notin RowPlaces BY DEF RowPlaces
<1> HIDE DEF new
<1>4. RowFits(new, n, now, to)
  BY <1>1, <1>2, <1>3 DEF RowFits, Reportable
<1> QED BY <1>4 DEF new

LEMMA FitsFailure ==
    ASSUME NEW row \in JobRow, NEW n \in Nat, NEW found, RowFits(row, n, found, "fail"),
           NEW to \in {"failed", "gone"}
    PROVE  RowFits([row EXCEPT !.status = "failed"], n, found, to)
<1> DEFINE new == [row EXCEPT !.status = "failed"]
<1>1. /\ new.processed = row.processed /\ new.file = row.file /\ new.found = row.found
      /\ new.url = row.url /\ new.status = "failed"
  BY DEF JobRow
<1>2. /\ row.processed \in Nat /\ Len(row.file) \in Nat
      /\ ProgressEvery \in Nat \ {0} /\ row.url \in BOOLEAN
  BY RowNumbers
<1>3. "failed" \notin RowPlaces /\ "gone" \notin RowPlaces BY DEF RowPlaces
<1> HIDE DEF new
<1>4. RowFits(new, n, found, to)
  BY <1>1, <1>2, <1>3 DEF RowFits
<1> QED BY <1>4 DEF new

LEMMA FitsCreate ==
    ASSUME NEW row \in JobRow, NEW n \in Nat, NEW found, NEW file \in Seq(People),
           RowFits(row, n, found, "idle"), NEW to \in {"start", "failed"}
    PROVE  /\ RowFits([NoJob EXCEPT !.status = "pending", !.file = file], n, found, to)
           /\ RowFits(row, n, found, "failed")
<1> DEFINE new == [NoJob EXCEPT !.status = "pending", !.file = file]
<1>1. /\ new.processed = 0 /\ new.file = file /\ new.found = 0
      /\ new.url = FALSE /\ new.status = "pending"
  BY DEF NoJob
<1>2. /\ row.processed = 0 /\ n = 0 /\ row.found = 0 /\ ~row.url
      /\ row.found = found /\ row.status # "complete"
  BY DEF RowFits, NoJob
<1>3. Len(file) \in Nat /\ ProgressEvery \in Nat \ {0}
  BY LenProperties, EnrichmentAssumption
<1>4. 0 % ProgressEvery = 0 BY <1>3
<1>5. "failed" \notin RowPlaces /\ "start" \notin RowPlaces BY DEF RowPlaces
<1> HIDE DEF new
<1>6. RowFits(new, n, found, to)
  BY <1>1, <1>2, <1>3, <1>4, <1>5 DEF RowFits, Reportable
<1>7. RowFits(row, n, found, "failed")
  BY <1>5 DEF RowFits
<1> QED BY <1>6, <1>7 DEF new

\* The emails found among the rows done before stay what they are.
LEMMA FoundKept ==
    ASSUME JobShape, NEW j \in Jobs, NEW a, NEW found,
           output' = [output EXCEPT ![a] = Append(@, found)],
           NEW n \in Nat, n <= Len(output[j])
    PROVE  {i \in 1..n : output'[j][i]} = {i \in 1..n : output[j][i]}
<1>1. output[j] \in Seq(BOOLEAN) /\ Len(output[j]) \in Nat
  BY LenProperties DEF JobShape
<1>2. CASE a # j BY <1>2 DEF JobShape
<1>3. CASE a = j
  <2>1. output'[j] = Append(output[j], found) BY <1>3 DEF JobShape
  <2>2. ASSUME NEW i \in 1..n PROVE Append(output[j], found)[i] = output[j][i]
    <3>1. i \in 1..Len(output[j]) BY <1>1
    <3> QED BY <1>1, <3>1
  <2> QED BY <2>1, <2>2
<1> QED BY <1>2, <1>3

LEMMA RowsElsewhere ==
    ASSUME JobShape, NEW j \in Jobs, RowsInv(j), job'[j] = job[j], output'[j] = output[j],
           \/ lookup'[j].at = lookup[j].at
           \/ lookup'[j].at \in {"fail", "gone"}
    PROVE  RowsInv(j)'
<1>1. job[j] \in JobRow /\ Len(output[j]) \in Nat
  BY LenProperties DEF JobShape
<1>2. RowFits(job[j], Len(output[j]), Found(j, job[j].processed), lookup'[j].at)
  BY <1>1, FitsNext DEF RowsInv
<1>3. Found(j, job[j].processed)' = Found(j, job[j].processed)
  BY DEF Found
<1> QED BY <1>2, <1>3 DEF RowsInv

\* A step of enrichCandidate in a worker.
LEMMA RowsByStep ==
    ASSUME Shape, NEW j \in Jobs, RowsInv(j), EnrichStep(j)
    PROVE  RowsInv(j)'
<1>0. LookupShape /\ JobShape /\ j \in Agents /\ j \notin Singles
  BY EnrichmentAssumption DEF Shape, Agents
<1>1. OnRow(lookup[j]) /\ Alone(j) /\ RowStep(j)
  BY <1>0, EnrichStepMoves
<1>2. job' = job
  BY DEF EnrichStep, getCache, getUserProviders, findEmail, setCache, logUsage
<1> DEFINE row == job[j]
           n == Len(output[j])
           found == Found(j, row.processed)
<1>3. row \in JobRow /\ n \in Nat /\ output[j] \in Seq(BOOLEAN)
  BY <1>0, LenProperties DEF JobShape
<1>4. lookup[j].at \in RowPlaces /\ RowFits(row, n, found, lookup[j].at)
  BY <1>1 DEF OnRow, RowsInv
<1>5. \/ output' = output /\ (Stays(j) \/ Throws(j))
      \/ \E f : Answers(j, f)
  <2>1. Next_provider(j) => Stays(j) BY <1>0, <1>1, NextProviderMoves
  <2>2. CASE getUserProviders(j)
    <3>1. \/ Throws(j) /\ output' = output
          \/ Answers(j, FALSE)
          \/ /\ output' = output
             /\ \E order : lookup' = [lookup EXCEPT ![j].at = "try", ![j].todo = order]
      BY <2>2 DEF getUserProviders
    <3>2. ASSUME NEW order, lookup' = [lookup EXCEPT ![j].at = "try", ![j].todo = order]
          PROVE  lookup'[j].at = "try"
      <4> DEFINE r == lookup[j]
      <4>1. r = [at |-> r.at, person |-> r.person, todo |-> r.todo, known |-> r.known]
        BY <1>1 DEF OnRow
      <4>2. lookup'[j] = [r EXCEPT !.at = "try", !.todo = order]
        BY <1>0, <3>2 DEF LookupShape
      <4> QED BY <4>1, <4>2
    <3>3. \/ Throws(j) /\ output' = output
          \/ Answers(j, FALSE)
          \/ output' = output /\ lookup'[j].at = "try"
      BY <3>1, <3>2
    <3>4. lookup'[j].at = "try" => Stays(j)
      BY <1>1, <1>0 DEF RowStep, RowEnds, AtRest
    <3> QED BY <3>3, <3>4
  <2>3. CASE logUsage(j)
    <3>1. \/ Answers(j, lookup[j].at # "log none")
          \/ output' = output /\ (Next_provider(j) \/ Throws(j))
      BY <2>3 DEF logUsage
    <3> QED BY <2>1, <3>1
  <2>4. CASE getCache(j)
    <3>1. output' = output /\ (Throws(j) \/ Goto(j, "log hit") \/ Goto(j, "providers"))
      BY <2>4 DEF getCache
    <3>2. "log hit" \in RowPlaces /\ "providers" \in RowPlaces BY DEF RowPlaces
    <3> QED BY <1>0, <1>1, <3>1, <3>2, GotoStays
  <2>5. CASE findEmail(j)
    <3>1. output' = output /\ (Goto(j, "save") \/ Next_provider(j))
      BY <2>5 DEF findEmail
    <3>2. "save" \in RowPlaces BY DEF RowPlaces
    <3> QED BY <1>0, <1>1, <2>1, <3>1, <3>2, GotoStays
  <2>6. CASE setCache(j)
    <3>1. output' = output /\ (Goto(j, "log found") \/ Next_provider(j))
      BY <2>6 DEF setCache
    <3>2. "log found" \in RowPlaces BY DEF RowPlaces
    <3> QED BY <1>0, <1>1, <2>1, <3>1, <3>2, GotoStays
  <2> QED BY <2>2, <2>3, <2>4, <2>5, <2>6 DEF EnrichStep
<1>6. CASE output' = output /\ (Stays(j) \/ Throws(j))
  <2>1. lookup'[j].at \in RowPlaces \/ lookup'[j].at = "fail"
    BY <1>0, <1>6, ThrowsMoves DEF Stays, OnRow
  <2>2. RowFits(row, n, found, lookup'[j].at)
    <3> HIDE DEF row, n, found
    <3> QED BY <1>3, <1>4, <2>1, FitsNext
  <2>3. Found(j, job[j].processed)' = Found(j, job[j].processed)
    BY <1>2, <1>6 DEF Found
  <2> QED BY <1>2, <1>6, <2>2, <2>3 DEF RowsInv
<1>7. CASE \E f : Answers(j, f)
  <2>1. PICK f : Answers(j, f) BY <1>7
  <2>2. /\ output' = [output EXCEPT ![j] = Append(@, f)]
        /\ lookup'[j].at = IF (n + 1) % ProgressEvery = 0 \/ n + 1 = Len(row.file)
                           THEN "progress" ELSE "row"
    BY <1>0, <2>1, AnswersMoves
  <2>3. RowFits(row, n + 1, found, lookup'[j].at)
    <3> HIDE DEF row, n, found
    <3> QED BY <1>3, <1>4, <2>2, FitsRowDone
  <2>4. Len(output'[j]) = n + 1
    <3>1. output'[j] = Append(output[j], f) BY <1>0, <2>2 DEF JobShape
    <3> QED BY <1>3, <3>1
  <2>5. Found(j, job[j].processed)' = found
    <3>1. row.processed \in Nat /\ row.processed <= n
      BY <1>3, <1>4, RowNumbers DEF RowFits
    <3>2. {i \in 1..row.processed : output'[j][i]}
             = {i \in 1..row.processed : output[j][i]}
      BY <1>0, <2>2, <3>1, FoundKept
    <3> QED BY <1>2, <3>2 DEF Found
  <2> QED BY <1>2, <2>3, <2>4, <2>5 DEF RowsInv
<1> QED BY <1>5, <1>6, <1>7

\* A step of the worker itself, that does not end the process.
LEMMA RowsByWork ==
    ASSUME Shape, NEW j \in Jobs, RowsInv(j), Work(j)
    PROVE  RowsInv(j)'
<1>0. LookupShape /\ JobShape /\ j \in Agents /\ j \notin Singles
  BY EnrichmentAssumption DEF Shape, Agents
<1>1. lookup[j] = At(lookup[j].at) /\ output' = output
  BY WorkMoves DEF Work, StartJob, NextRow, Progress, uploadResultCsv, Complete,
                   RecordFailure
<1> DEFINE row == job[j]
           n == Len(output[j])
           at == lookup[j].at
           found == Found(j, row.processed)
<1>2. /\ row \in JobRow /\ n \in Nat /\ output[j] \in Seq(BOOLEAN)
      /\ Len(row.file) \in Nat
  BY <1>0, LenProperties, RowNumbers DEF JobShape
<1>3. RowFits(row, n, found, at) BY DEF RowsInv
<1>4. ASSUME NEW new, job' = [job EXCEPT ![j] = new],
             RowFits(new, n, Found(j, new.processed), lookup'[j].at)
      PROVE  RowsInv(j)'
  <2>1. job'[j] = new BY <1>0, <1>4 DEF JobShape
  <2>2. Found(j, job[j].processed)' = Found(j, new.processed)
    BY <1>1, <2>1 DEF Found
  <2> QED BY <1>1, <1>4, <2>1, <2>2 DEF RowsInv
<1>5. ASSUME job' = job, RowFits(row, n, found, lookup'[j].at)
      PROVE  RowsInv(j)'
  <2>1. Found(j, job[j].processed)' = found BY <1>1, <1>5 DEF Found
  <2> QED BY <1>1, <1>5, <2>1 DEF RowsInv
<1>6. ASSUME NEW place, Goto(j, place) PROVE lookup'[j].at = place
  <2>1. lookup'[j] = At(place) BY <1>0, <1>1, <1>6, GotoRests
  <2> QED BY <2>1 DEF At
<1>7. ASSUME NEW new, NEW next, updateJob(j, new, next)
      PROVE  \/ job' = [job EXCEPT ![j] = new] /\ lookup'[j].at \in {next, "fail"}
             \/ job' = job /\ lookup'[j].at = "fail"
  BY <1>6, <1>7 DEF updateJob, Applied
<1>8. RowFits(row, n, found, "fail") /\ RowFits(row, n, found, "gone")
  <2> HIDE DEF row, n, found, at
  <2> QED BY <1>2, <1>3, FitsNext
<1>9. CASE StartJob(j)
  <2> DEFINE new == [row EXCEPT !.status = "processing"]
  <2>1. at = "start" /\ updateJob(j, new, "row") BY <1>9 DEF StartJob
  <2>2. new.processed = row.processed BY <1>2 DEF JobRow
  <2>3. \A to \in {"row", "fail"} : RowFits(new, n, found, to)
    <3> HIDE DEF row, n, found, at
    <3> QED BY <1>2, <1>3, <2>1, FitsStart
  <2>4. Found(j, new.processed) = found BY <2>2
  <2> HIDE DEF new
  <2> QED BY <1>4, <1>5, <1>7, <1>8, <2>1, <2>3, <2>4
<1>10. CASE NextRow(j)
  <2>1. at = "row" /\ job' = job BY <1>10 DEF NextRow
  <2>2. CASE Alone(j) /\ n + 1 <= Len(row.file) /\ lookup'[j] = Begin(j, row.file[n + 1])
    <3>1. RowFits(row, n, found, "cache")
      <4> HIDE DEF row, n, found, at
      <4> QED BY <1>2, <1>3, <2>1, <2>2, FitsNext
    <3>2. lookup'[j].at \in {"cache", "fail"}
      BY <1>0, <2>2, RowIsPerson, BeginFacts DEF At
    <3> QED BY <1>5, <1>8, <2>1, <3>1, <3>2
  <2>3. CASE n + 1 > Len(row.file)
    <3>1. lookup'[j].at = "upload" BY <1>6, <1>10, <2>3 DEF NextRow
    <3>2. RowFits(row, n, found, "upload")
      <4> HIDE DEF row, n, found, at
      <4> QED BY <1>2, <1>3, <2>1, <2>3, FitsNext
    <3> QED BY <1>5, <2>1, <3>1, <3>2
  <2>4. CASE ~(n + 1 > Len(row.file))
    <3>1. lookup' = [lookup EXCEPT ![j] = Begin(j, row.file[n + 1])]
      BY <1>10, <2>4 DEF NextRow
    <3>2. Alone(j) /\ lookup'[j] = Begin(j, row.file[n + 1])
      BY <1>0, <3>1 DEF LookupShape, Alone
    <3>3. n + 1 <= Len(row.file)
      <4> HIDE DEF row, n
      <4> QED BY <1>2, <2>4
    <3> QED BY <2>2, <3>2, <3>3
  <2> QED BY <2>3, <2>4
<1>11. CASE Progress(j)
  <2> DEFINE new == [row EXCEPT !.processed = n, !.found = Found(j, n)]
  <2>1. at = "progress" /\ updateJob(j, new, "row") BY <1>11 DEF Progress
  <2>2. new.processed = n BY <1>2 DEF JobRow
  <2>3. \A to \in {"row", "fail"} : RowFits(new, n, Found(j, n), to)
    <3> HIDE DEF row, n, found, at
    <3> QED BY <1>2, <1>3, <2>1, FitsProgress
  <2>4. Found(j, new.processed) = Found(j, n) BY <2>2
  <2> HIDE DEF new
  <2> QED BY <1>4, <1>5, <1>7, <1>8, <2>1, <2>3, <2>4
<1>12. CASE uploadResultCsv(j)
  <2>1. at = "upload" /\ job' = job /\ (Goto(j, "complete") \/ Goto(j, "fail"))
    BY <1>12 DEF uploadResultCsv
  <2>2. RowFits(row, n, found, "complete")
    <3> HIDE DEF row, n, found, at
    <3> QED BY <1>2, <1>3, <2>1, FitsNext
  <2> QED BY <1>5, <1>6, <1>8, <2>1, <2>2
<1>13. CASE Complete(j)
  <2> DEFINE m == Len(row.file)
             new == [row EXCEPT !.status = "complete", !.processed = m,
                                !.found = Found(j, m), !.url = TRUE]
  <2>1. at = "complete" /\ updateJob(j, new, "answered") BY <1>13 DEF Complete
  <2>2. new.processed = m BY <1>2 DEF JobRow
  <2>3. \A to \in {"answered", "fail"} : RowFits(new, n, Found(j, m), to)
    <3> HIDE DEF row, n, found, at
    <3> QED BY <1>2, <1>3, <2>1, FitsComplete
  <2>4. Found(j, new.processed) = Found(j, m) BY <2>2
  <2> HIDE DEF new
  <2> QED BY <1>4, <1>5, <1>7, <1>8, <2>1, <2>3, <2>4
<1>14. CASE RecordFailure(j)
  <2> DEFINE new == [row EXCEPT !.status = "failed"]
  <2>1. at = "fail" BY <1>14 DEF RecordFailure
  <2>2. PICK outcome \in Outcomes :
           /\ job' = IF Applied(outcome) THEN [job EXCEPT ![j].status = "failed"] ELSE job
           /\ IF outcome = "done" THEN Goto(j, "failed") ELSE Crash
    BY <1>14 DEF RecordFailure
  <2>3. Crash => lookup'[j].at = "gone"
    BY <1>0, <2>1, CrashMoves DEF Open, At
  <2>4. \/ job' = [job EXCEPT ![j] = new] /\ lookup'[j].at \in {"failed", "gone"}
        \/ job' = job /\ lookup'[j].at = "gone"
    <3>1. [job EXCEPT ![j].status = "failed"] = [job EXCEPT ![j] = new] OBVIOUS
    <3> QED BY <1>6, <2>2, <2>3, <3>1 DEF Applied
  <2>5. new.processed = row.processed BY <1>2 DEF JobRow
  <2>6. \A to \in {"failed", "gone"} : RowFits(new, n, found, to)
    <3> HIDE DEF row, n, found, at
    <3> QED BY <1>2, <1>3, <2>1, FitsFailure
  <2>7. Found(j, new.processed) = found BY <2>5
  <2> HIDE DEF new
  <2> QED BY <1>4, <1>5, <1>8, <2>4, <2>6, <2>7
<1> QED BY <1>9, <1>10, <1>11, <1>12, <1>13, <1>14 DEF Work

LEMMA JobsPreserved ==
    ASSUME Shape, JobsInv, [Next]_vars
    PROVE  JobsInv'
<1> SUFFICES ASSUME NEW j \in Jobs PROVE RowsInv(j)'
  BY DEF JobsInv
<1>0. /\ LookupShape /\ JobShape /\ RowsInv(j) /\ Singles \intersect Jobs = {}
      /\ j \in Agents /\ j \notin Singles
  BY EnrichmentAssumption DEF Shape, JobsInv, Agents
<1>1. ASSUME job' = job, output' = output, lookup'[j] = lookup[j]
      PROVE  RowsInv(j)'
  BY <1>0, <1>1, RowsElsewhere
<1>2. ASSUME job'[j] = job[j], output' = output, Crash
      PROVE  RowsInv(j)'
  <2>1. lookup'[j].at = lookup[j].at \/ lookup'[j].at = "gone"
    BY <1>0, <1>2, CrashMoves DEF At
  <2> QED BY <1>0, <1>2, <2>1, RowsElsewhere
<1>3. ASSUME NEW s \in Singles, NEW q \in Asked, enforceDailyLookupLimit(s, q)
      PROVE  RowsInv(j)'
  <2>1. job' = job /\ output' = output BY <1>3 DEF enforceDailyLookupLimit
  <2> QED BY <1>0, <1>1, <1>3, <2>1, EnforceMoves DEF Alone
<1>4. ASSUME NEW k \in Jobs, NEW file \in Files, createBatchJob(k, file)
      PROVE  RowsInv(j)'
  <2>1. /\ lookup[k].at = "idle" /\ Alone(k) /\ lookup'[k] \in {At("start"), At("failed")}
        /\ output' = output
        /\ \/ job' = [job EXCEPT ![k] = [NoJob EXCEPT !.status = "pending",
                                                      !.file = file]]
           \/ job' = job /\ lookup'[k] = At("failed")
    BY <1>0, <1>4, CreateMoves
  <2>2. CASE k # j
    <3>1. job'[j] = job[j] /\ lookup'[j] = lookup[j]
      BY <1>0, <2>1, <2>2 DEF Alone, JobShape
    <3> QED BY <1>0, <2>1, <3>1, RowsElsewhere
  <2>3. CASE k = j
    <3> DEFINE row == job[j]
               n == Len(output[j])
               found == Found(j, row.processed)
               new == [NoJob EXCEPT !.status = "pending", !.file = file]
    <3>1. row \in JobRow /\ n \in Nat /\ file \in Seq(People)
      BY <1>0, LenProperties, EnrichmentAssumption DEF JobShape
    <3>2. RowFits(row, n, found, "idle") BY <1>0, <2>1, <2>3 DEF RowsInv
    <3>3. /\ \A to \in {"start", "failed"} : RowFits(new, n, found, to)
          /\ RowFits(row, n, found, "failed")
      <4> HIDE DEF row, n, found
      <4> QED BY <3>1, <3>2, FitsCreate
    <3>4. row.processed = 0 /\ new.processed = 0
      BY <3>2 DEF RowFits, NoJob
    <3>5. lookup'[j].at \in {"start", "failed"}
      BY <2>1, <2>3 DEF At
    <3>6. CASE job' = [job EXCEPT ![j] = new]
      <4>1. job'[j] = new BY <1>0, <3>6 DEF JobShape
      <4>2. Found(j, job[j].processed)' = found
        BY <2>1, <3>4, <4>1 DEF Found
      <4> QED BY <2>1, <3>3, <3>5, <4>1, <4>2 DEF RowsInv
    <3>7. CASE job' = job /\ lookup'[j] = At("failed")
      <4>1. Found(j, job[j].processed)' = found
        BY <2>1, <3>7 DEF Found
      <4>2. lookup'[j].at = "failed" BY <3>7 DEF At
      <4> QED BY <2>1, <3>3, <3>7, <4>1, <4>2 DEF RowsInv
    <3> QED BY <2>1, <2>3, <3>6, <3>7
  <2> QED BY <2>2, <2>3
<1>5. ASSUME NEW a \in Agents, EnrichStep(a)
      PROVE  RowsInv(j)'
  <2>1. CASE a = j BY <1>0, <1>5, <2>1, RowsByStep
  <2>2. CASE a # j
    <3>1. job' = job
      BY <1>5 DEF EnrichStep, getCache, getUserProviders, findEmail, setCache, logUsage
    <3>2. lookup'[j] = lookup[j]
      BY <1>0, <1>5, <2>2, EnrichStepMoves DEF Alone
    <3>3. \/ output' = output
          \/ \E f : Answers(a, f)
      BY <1>5 DEF EnrichStep, getCache, getUserProviders, findEmail, setCache,
                  logUsage, history
    <3>4. output'[j] = output[j]
      <4>1. \/ output' = output
            \/ a \in Jobs /\ \E f : output' = [output EXCEPT ![a] = Append(@, f)]
        BY <1>0, <3>3, AnswersMoves DEF Agents
      <4> QED BY <1>0, <2>2, <4>1 DEF JobShape
    <3> QED BY <1>0, <3>1, <3>2, <3>4, RowsElsewhere
  <2> QED BY <2>1, <2>2
<1>6. ASSUME NEW k \in Jobs, Work(k)
      PROVE  RowsInv(j)'
  <2>1. CASE k = j BY <1>0, <1>6, <2>1, RowsByWork
  <2>2. CASE k # j
    <3>1. output' = output
      BY <1>6 DEF Work, StartJob, NextRow, Progress, uploadResultCsv, Complete,
                  RecordFailure
    <3>2. job' = job \/ \E new : job' = [job EXCEPT ![k] = new]
      BY <1>6 DEF Work, StartJob, NextRow, Progress, uploadResultCsv, Complete,
                  RecordFailure, updateJob, Applied
    <3>3. job'[j] = job[j] BY <1>0, <2>2, <3>2 DEF JobShape
    <3>4. Alone(k) \/ Crash BY <1>6, WorkMoves
    <3>5. CASE Alone(k)
      <4>1. lookup'[j] = lookup[j] BY <1>0, <2>2, <3>5 DEF Alone
      <4> QED BY <1>0, <3>1, <3>3, <4>1, RowsElsewhere
    <3> QED BY <1>2, <3>1, <3>3, <3>4, <3>5
  <2> QED BY <2>1, <2>2
<1>7. ASSUME NEW old \in cache, Expire(old)
      PROVE  RowsInv(j)'
  <2>1. job' = job /\ output' = output BY <1>7 DEF Expire
  <2>2. lookup'[j].at = lookup[j].at BY <1>0, <1>7, ExpireMoves
  <2> QED BY <1>0, <2>1, <2>2, RowsElsewhere
<1>8. CASE Restart BY <1>2, <1>8 DEF Restart
<1>9. CASE Midnight BY <1>1, <1>9 DEF Midnight
<1>10. ASSUME NEW p \in Providers, NEW priority, SaveProvider(p, priority)
       PROVE  RowsInv(j)'
  BY <1>1, <1>10 DEF SaveProvider
<1>11. CASE UNCHANGED vars BY <1>1, <1>11 DEF vars
<1> QED BY <1>3, <1>4, <1>5, <1>6, <1>7, <1>8, <1>9, <1>10, <1>11
        DEF Next, DeleteProvider

\* What a job shows is what its worker did, at most an interval behind, whatever
\* updates are refused or lost (batchProcessor.js).
THEOREM JobsShowTheirRows == Spec => []JobRowsAgree
<1>1. EnrichmentInit => JobsInv
  <2> SUFFICES ASSUME EnrichmentInit, NEW j \in Jobs PROVE RowsInv(j)
    BY DEF JobsInv
  <2>1. job[j] = NoJob /\ output[j] = <<>> /\ lookup[j].at = "idle"
    BY DEF EnrichmentInit, Agents, At
  <2>2. Found(j, 0) = 0
    <3>1. {i \in 1..0 : output[j][i]} = {} OBVIOUS
    <3> QED BY <3>1, FS_EmptySet DEF Found
  <2>3. ProgressEvery \in Nat \ {0} BY EnrichmentAssumption
  <2>4. 0 % ProgressEvery = 0 BY <2>3
  <2>5. /\ NoJob.processed = 0 /\ NoJob.found = 0 /\ Len(NoJob.file) = 0 /\ ~NoJob.url
        /\ NoJob.status # "complete"
    BY DEF NoJob
  <2>6. "idle" \notin RowPlaces BY DEF RowPlaces
  <2>7. Len(output[j]) = 0 BY <2>1
  <2>8. RowFits(NoJob, 0, 0, "idle")
    BY <2>3, <2>4, <2>5, <2>6 DEF RowFits, Reportable
  <2> QED BY <2>1, <2>2, <2>5, <2>7, <2>8 DEF RowsInv
<1>2. Shape /\ JobsInv /\ [Next]_vars => JobsInv'
  BY JobsPreserved
<1>3. JobsInv => JobRowsAgree
  BY DEF JobsInv, RowsInv, RowFits, JobRowsAgree
<1> QED BY <1>1, <1>2, <1>3, ShapeHolds, PTL DEF Spec
=============================================================================
