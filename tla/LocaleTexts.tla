---------------------------- MODULE LocaleTexts ----------------------------
(***************************************************************************)
(* The texts and the language of one WASM instance: locale.ts and          *)
(* bridge/i18n.ts.  A program loads one file of texts per locale, sets the *)
(* locale it answers in, and asks for a text, for the text that fits a     *)
(* count, or for a number.  A locale is the sequence of its subtags        *)
(* ("fr-CA" is <<"fr", "CA">>); a text is named by the file it is from and *)
(* by its key, a plural form by its suffix.  What is put in the place of   *)
(* {placeholders} is left out.                                             *)
(***************************************************************************)
EXTENDS Naturals, Sequences, FiniteSets, SequencesExt

CONSTANTS
    Locales,      \* those a program uses, the default among them
    Files,        \* what a file may hold: the forms of one key
    Counts, Numbers,
    MaxLoads, MaxRequests

VARIABLES
    translations, \* locale -> the forms its file holds
    currentLocale,
    loads,
    running,      \* a request is being handled
    requests,
    setBy         \* the request that has set the locale last (0 = start())

vars == <<translations, currentLocale, loads, running, requests, setBy>>

defaultLocale == <<"en">>
primary(locale) == <<locale[1]>>

Init ==
    /\ translations = [l \in {} |-> {}] /\ currentLocale = defaultLocale
    /\ loads = 0 /\ running = FALSE /\ requests = 0 /\ setBy = 0

-----------------------------------------------------------------------------
\* The state is made once per instance; a new request replaces its context and its
\* response and leaves the locale.
setRequestContext ==
    /\ ~running /\ requests < MaxRequests
    /\ running' = TRUE /\ requests' = requests + 1
    /\ UNCHANGED <<translations, currentLocale, loads, setBy>>

RequestEnds ==
    /\ running /\ running' = FALSE
    /\ UNCHANGED <<translations, currentLocale, loads, requests, setBy>>

\* start() loads and sets before the first request, handlers at any time.  A file
\* that is not valid throws and changes nothing.
Program == running \/ requests = 0

_i18n_load(locale, file) ==
    /\ Program /\ loads < MaxLoads /\ loads' = loads + 1
    /\ translations' = [l \in DOMAIN translations \cup {locale} |->
           IF l = locale THEN file ELSE translations[l]]
    /\ UNCHANGED <<currentLocale, running, requests, setBy>>

_i18n_set_locale(locale) ==
    /\ Program /\ currentLocale' = locale /\ setBy' = requests
    /\ UNCHANGED <<translations, loads, running, requests>>

-----------------------------------------------------------------------------
Plain == ""   \* the suffix of a text without forms
NoText == [from |-> <<>>, form |-> Plain]
Holds(locale, form) == locale \in DOMAIN translations /\ form \in translations[locale]

\* The text of the first of some locales whose file has it.
FirstOf(locales, form) ==
    LET at == {i \in DOMAIN locales : Holds(locales[i], form)}
    IN  IF at = {} THEN NoText ELSE [from |-> locales[Min(at)], form |-> form]

\* seeded fault: the default locale is asked before the language
DefaultFirst(form, locale) == FirstOf(<<locale, defaultLocale, primary(locale)>>, form)
\* The locale itself, its language, the default locale.
lookupRaw(form, locale) == FirstOf(<<locale, primary(locale), defaultLocale>>, form)

_i18n_t == lookupRaw(Plain, currentLocale)

slavicRu(n) ==
    CASE n % 10 = 1 /\ n % 100 # 11 -> "one"
      [] n % 10 \in 2 .. 4 /\ n % 100 \notin 12 .. 14 -> "few"
      [] OTHER -> "many"

polish(n) ==
    CASE n = 1 -> "one"
      [] n % 10 \in 2 .. 4 /\ n % 100 \notin 12 .. 14 -> "few"
      [] n # 1 /\ n % 10 = 1 /\ n % 100 \notin 10 .. 20 -> "other"
      [] OTHER -> "many"

arabic(n) ==
    CASE n = 0 -> "zero"
      [] n = 1 -> "one"
      [] n = 2 -> "two"
      [] n > 2 /\ n % 100 \in 3 .. 10 -> "few"
      [] n > 2 /\ n % 100 \in 11 .. 99 -> "many"
      [] OTHER -> "other"

pluralCategory(n, locale) ==
    LET language == locale[1]
        upTo(last) == IF n <= last THEN "one" ELSE "other"
    IN  CASE language = "ar" -> arabic(n)
          [] language = "pl" -> polish(n)
          [] language \in {"ru", "uk", "be"} -> slavicRu(n)
          [] language = "he" -> CASE n = 0 -> "zero" [] n = 1 -> "one" [] n = 2 -> "two"
                                  [] OTHER -> IF n % 10 = 0 THEN "many" ELSE "other"
          [] language \in {"cs", "sk"} -> CASE n = 1 -> "one" [] n \in 2 .. 4 -> "few"
                                            [] OTHER -> "other"
          [] language = "sl" -> CASE n % 100 = 1 -> "one" [] n % 100 = 2 -> "two"
                                  [] n % 100 \in {3, 4} -> "few" [] OTHER -> "other"
          [] language \in {"fr", "pt"} -> upTo(1)
          [] language \in {"ja", "zh", "ko", "th", "vi", "id", "ms"} -> "other"
          [] OTHER -> IF n = 1 THEN "one" ELSE "other"

\* Each form is looked for in all files before the next one: zero for no things,
\* the category the locale gives to the count, and other.
translateCount(n, locale) ==
    LET forms == (IF n = 0 THEN <<"zero">> ELSE <<>>)
                 \o <<pluralCategory(n, locale), "other">>
        at == {i \in DOMAIN forms : lookupRaw(forms[i], locale) # NoText}
    IN  IF at = {} THEN NoText ELSE lookupRaw(forms[Min(at)], locale)

_i18n_t_count(n) == translateCount(n, currentLocale)

-----------------------------------------------------------------------------
\* A number is the digits before and after the point; its sign is left out.
numberFormatFor(locale) ==
    LET dots == {"de", "nl", "it", "pl", "cs", "sk", "hu", "hr", "bg", "ro", "tr", "el",
                 "ru", "uk", "be", "sl", "sr", "no", "fi", "da", "sv", "nb"}
    IN  CASE locale[1] \in dots -> [group |-> ".", decimal |-> ","]
          [] locale[1] = "fr" -> [group |-> " ", decimal |-> ","]
          [] OTHER -> [group |-> ",", decimal |-> "."]

\* A separator follows a digit when a multiple of three digits come after it.
formatNumber(number, locale, useGrouping) ==
    LET fmt == numberFormatFor(locale)
        after(i) == Len(number.int) - i
        digit(i) == IF useGrouping /\ after(i) > 0 /\ after(i) % 3 = 0
                    THEN <<number.int[i], fmt.group>> ELSE <<number.int[i]>>
    IN  FlattenSeq([i \in DOMAIN number.int |-> digit(i)])
        \o (IF number.frac = <<>> THEN <<>> ELSE <<fmt.decimal>> \o number.frac)

_i18n_format_number(number, useGrouping) ==
    formatNumber(number, currentLocale, useGrouping)

Next ==
    \/ setRequestContext \/ RequestEnds
    \/ \E l \in Locales : _i18n_set_locale(l) \/ \E f \in Files : _i18n_load(l, f)

Spec == Init /\ [][Next]_vars

-----------------------------------------------------------------------------
TypeOK ==
    /\ DOMAIN translations \subseteq Locales /\ currentLocale \in Locales
    /\ \A l \in DOMAIN translations : translations[l] \in Files
    /\ loads \in 0 .. MaxLoads /\ running \in BOOLEAN
    /\ requests \in 0 .. MaxRequests /\ setBy \in 0 .. requests

\* The categories a translator of the locale has to provide.
Categories(locale) == {pluralCategory(n, locale) : n \in Counts}

\* Every count has a text as soon as the language or the default locale has the form
\* for the rest; a file with all forms of its language serves each count itself, by
\* the form of that count, and the file of the region falls back to it.  (A form for
\* zero of another file goes before it, and is left out here.)
CountsServed ==
    \A n \in Counts :
        LET text == _i18n_t_count(n)
            language == primary(currentLocale)
            complete == Holds(language, "other") /\ \A c \in Categories(language) : Holds(language, c)
            zeroElsewhere == \E l \in DOMAIN translations : Holds(l, "zero") /\ l # language
            ownForms == currentLocale # language /\ currentLocale \in DOMAIN translations
        IN  /\ (Holds(language, "other") \/ Holds(defaultLocale, "other")) => text # NoText
            /\ (complete /\ ~ownForms /\ (n = 0 => ~zeroElsewhere)) =>
                   /\ text.from = language
                   /\ text.form \in {"zero", pluralCategory(n, language)}
            /\ n # 0 => text.form # "zero"

\* A text comes from a less specific file only when no more specific one has it.
MostSpecific ==
    LET text == _i18n_t
    IN  /\ Holds(currentLocale, Plain) => text.from = currentLocale
        /\ (text # NoText /\ text.from = defaultLocale) =>
              \A l \in {currentLocale, primary(currentLocale)} \ {defaultLocale} : ~Holds(l, Plain)

\* What is shown reads back as the number: the separators stand between groups of
\* three digits, no more at the front, and differ from the decimal sign.
NumbersReadBack ==
    \A x \in Numbers : \A grouping \in BOOLEAN :
        LET fmt == numberFormatFor(currentLocale)
            shown == _i18n_format_number(x, grouping)
            sign == {i \in DOMAIN shown : shown[i] = fmt.decimal}
            end == IF sign = {} THEN Len(shown) + 1 ELSE CHOOSE i \in sign : TRUE
            marks == {i \in DOMAIN shown : shown[i] = fmt.group}
            digits(last) == (1 .. last) \ marks
        IN  /\ Cardinality(digits(end - 1)) = Len(x.int)
            /\ \A i \in digits(end - 1) : shown[i] = x.int[Cardinality(digits(i))]
            /\ SubSeq(shown, end + 1, Len(shown)) = x.frac
            /\ marks = {i \in 2 .. end - 1 : grouping /\ (end - i) % 4 = 0}

TextsExact == CountsServed /\ MostSpecific /\ NumbersReadBack

\* A request that has not set a locale is answered in the default one, or in what
\* start() has set: the locale is reset at request boundaries.
LocalePerRequest == running => setBy \in {0, requests}
=============================================================================
