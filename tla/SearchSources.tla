--------------------------- MODULE SearchSources ----------------------------
(***************************************************************************)
(* The pages that a chat's categories, filters and queries ask for, and    *)
(* which of them are valid: search.go of internal/config.                  *)
(***************************************************************************)
EXTENDS Sequences, SequencesExt

CONSTANTS
    FormFields,     \* the fields of the search form, in form order
    Accepted,       \* the values each field takes
    Encodable,      \* the values that Windows-1251 can represent
    Words,          \* ASCII words
    LastDays,       \* the field lday
    Week            \* its default

ASSUME SearchAssumption ==
    /\ FormFields \in Seq(ToSet(FormFields)) /\ IsInjective(FormFields)
    /\ LastDays \in ToSet(FormFields)
    /\ DOMAIN Accepted = ToSet(FormFields)
    /\ Week \in Accepted[LastDays] \cap Encodable

\* validateQueries, validateFilters: fields of the form with values they take.
ValueIsValid(field, value) == value \in Accepted[field] \cap Encodable

QueryIsValid(query) ==
    /\ DOMAIN query # {} /\ DOMAIN query \subseteq ToSet(FormFields)
    /\ \A f \in DOMAIN query : ValueIsValid(f, query[f])

FiltersAreValid(filters) ==
    /\ DOMAIN filters \subseteq ToSet(FormFields)
    /\ \A f \in DOMAIN filters :
          filters[f] # <<>> /\ \A v \in ToSet(filters[f]) : ValueIsValid(f, v)

SearchIsValid(search) ==
    /\ search.categories # <<>> \/ DOMAIN search.filters # {} \/ search.queries # <<>>
    /\ ToSet(search.categories) \subseteq Words
    /\ FiltersAreValid(search.filters)
    /\ \A q \in ToSet(search.queries) : QueryIsValid(q)

CategoryURL(word) == [page |-> word, parameters |-> <<>>]

\* The parameters that a query gives, in form order.
Given(query) ==
    LET given[n \in 0..Len(FormFields)] ==
            IF n = 0 THEN <<>>
            ELSE IF FormFields[n] \in DOMAIN query
                 THEN Append(given[n-1], <<FormFields[n], query[FormFields[n]]>>)
                 ELSE given[n-1]
    IN  given[Len(FormFields)]

\* Mistaken: the default is added whether or not lday is given.
SearchURLDated(query) ==
    [page |-> "form", parameters |-> Append(Given(query), <<LastDays, Week>>)]

\* buildSearchURL: the given fields, the default lday last.
SearchURL(query) ==
    [page |-> "form",
     parameters |-> IF LastDays \in DOMAIN query THEN Given(query)
                    ELSE Append(Given(query), <<LastDays, Week>>)]

AppendUnique(urls, url) == IF Contains(urls, url) THEN urls ELSE Append(urls, url)

AppendEach(urls, more) ==
    LET appended[n \in 0..Len(more)] ==
            IF n = 0 THEN urls ELSE AppendUnique(appended[n-1], more[n])
    IN  appended[Len(more)]

CategoryURLs(categories) == [i \in DOMAIN categories |-> CategoryURL(categories[i])]

\* Each value of a filter is a request of its own.
FilterURLs(filters, field) ==
    IF field \in DOMAIN filters
    THEN [j \in DOMAIN filters[field] |-> SearchURL([f \in {field} |-> filters[field][j]])]
    ELSE <<>>

QueryURLs(queries) == [i \in DOMAIN queries |-> SearchURL(queries[i])]

\* buildSearchEndpoints
SearchURLs(search) ==
    LET told[n \in 0..Len(FormFields)] ==
            IF n = 0 THEN AppendEach(<<>>, CategoryURLs(search.categories))
            ELSE AppendEach(told[n-1], FilterURLs(search.filters, FormFields[n]))
    IN  AppendEach(told[Len(FormFields)], QueryURLs(search.queries))
=============================================================================
