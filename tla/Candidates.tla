----------------------------- MODULE Candidates -----------------------------
(***************************************************************************)
(* enrichall/src/engine/normalizer.js: how a person asked for becomes the  *)
(* candidate sent to providers and the key of the cache.                   *)
(*                                                                         *)
(* A text is a sequence of words, in lower case and without punctuation,   *)
(* or blank space alone: the word " ".  Of blank space around a text that  *)
(* has words, only that between the two names matters: gap.  Of a URL      *)
(* matter its form, the slashes at its end and the name in a               *)
(* linkedin.com/in/ path.                                                  *)
(***************************************************************************)
EXTENDS Integers, Sequences

Missing == <<>>
Blank == <<" ">>
Text == Seq(STRING \ {" "}) \union {Blank}
trim(text) == IF text = Blank THEN Missing ELSE text
\* The || of JavaScript: blank space counts as a value.
Or(value, default) == IF value # Missing THEN value ELSE default

\* "bare" lacks the scheme, "other" does not name LinkedIn either.
Url == [form : {"none", "http", "bare", "other"}, slashes : Nat, slug : Text]
NoUrl == [form |-> "none", slashes |-> 0, slug |-> Missing]
\* Who may be asked for.  gap: blank space behind the first name given, or
\* before the last name given.
Person == {p \in [first : Text, last : Text, gap : BOOLEAN, full : Text,
                  company : Text, domain : Text, url : Url] :
              p.gap => \E name \in {p.first, p.last} : trim(name) # Missing}

LegalForms == {"inc", "llc", "ltd", "limited", "pvt", "private", "corp",
               "corporation", "technologies", "technology", "solutions",
               "services"}

splitName(full) ==
    LET parts == trim(full)
    IN  IF parts = Missing THEN [first |-> Missing, last |-> Missing]
        ELSE [first |-> <<Head(parts)>>, last |-> Tail(parts)]

\* Variant: the last character goes, slash or not.
normalizeLinkedInUrl_cut(url) ==
    CASE url.form \in {"http", "bare"} /\ url.slashes > 0 ->
             [url EXCEPT !.form = "http", !.slashes = @ - 1]
      [] url.form \in {"http", "bare"} /\ url.slashes = 0 ->
             [url EXCEPT !.form = "http",
                         !.slug = SubSeq(@, 1, Len(@) - 1)]
      [] OTHER -> url

\* One slash goes at a time.
normalizeLinkedInUrl(url) ==
    IF url.form \in {"http", "bare"}
    THEN [form |-> "http", slug |-> url.slug,
          slashes |-> IF url.slashes > 0 THEN url.slashes - 1 ELSE 0]
    ELSE url

parseNameFromLinkedInUrl(url) == splitName(normalizeLinkedInUrl(url).slug)

\* The ".com" comes first here, to tell a guess from a name.
guessDomainFromCompany(company) ==
    LET clean == SelectSeq(trim(company), LAMBDA word : word \notin LegalForms)
    IN  IF clean = Missing THEN Missing ELSE <<".com">> \o clean

\* The full name is made of the names as they came, and trimmed only then.
join(first, last, gap) ==
    IF gap /\ Missing \notin {first, last} THEN first \o Blank \o last
    ELSE first \o last

normalizeCandidate(c) ==
    LET full == splitName(c.full)
        linkedIn == parseNameFromLinkedInUrl(c.url)
        first == Or(c.first, Or(full.first, linkedIn.first))
        last == Or(c.last, Or(full.last, linkedIn.last))
    IN  [first |-> trim(first), last |-> trim(last), gap |-> FALSE,
         full |-> join(trim(first), trim(last), c.gap),
         company |-> trim(c.company),
         domain |-> trim(Or(c.domain, guessDomainFromCompany(c.company))),
         url |-> normalizeLinkedInUrl(c.url)]

\* A malformed escape in the path makes decodeURIComponent throw.
Malformed(c) == c.url.slug = <<"%">>

Key(n) == IF n.url # NoUrl
          THEN [url |-> n.url, names |-> Missing]
          ELSE [url |-> NoUrl, names |-> <<n.first, n.last, n.company, n.domain>>]

lookupKey(c) == Key(normalizeCandidate(c))

\* The columns of a CSV file, by any of their names.  The parser trims cells, but
\* not those in quotation marks.
mapCsvRow(row) == normalizeCandidate(row)

-----------------------------------------------------------------------------
(* What each adapter under enrichall/src/providers asks for.               *)

apollo(c) == <<c.first, c.last, c.company, c.url>>
hunter(c) == <<c.first, c.last, c.domain>>
snov(c) == <<c.first, c.last, c.domain>>
rocketreach(c) == <<c.full, c.company, c.url>>
prospeo(c) == <<c.url>>
dropcontact(c) == <<c.first, c.last, c.company, c.domain>>

PROVIDERS == {"apollo", "hunter", "snov", "rocketreach", "prospeo", "dropcontact"}
Sent(provider, c) ==
    CASE provider = "apollo" -> apollo(c)
      [] provider = "hunter" -> hunter(c)
      [] provider = "snov" -> snov(c)
      [] provider = "rocketreach" -> rocketreach(c)
      [] provider = "prospeo" -> prospeo(c)
      [] provider = "dropcontact" -> dropcontact(c)
=============================================================================
