------------------------------ MODULE UseCases ------------------------------
(***************************************************************************)
(* The use cases and the services over repositories of core/application.   *)
(* Two packages that they import, of the vector store and of the knowledge *)
(* graph, are not in the repository (.gitignore:51,55): they are taken to  *)
(* keep what they are given.                                               *)
(*                                                                         *)
(* They read x.name.value and the like of what a repository finds, as the  *)
(* objects of the tests have it: an entity of core/domain has a plain name *)
(* and raises. A search suspends in each call of the browser, whose fields *)
(* all searches share; the other use cases share nothing and are one step. *)
(* What a query finds are dicts, as from the browser of the tests: of the  *)
(* SearchResult of core/domain no .get can be read, and a query that finds *)
(* one is another query that failed.                                       *)
(***************************************************************************)
EXTENDS Naturals, SequencesExt, FiniteSetsExt, Functions, Lists

CONSTANTS
  Titles,       \* titles that searches find, in lower case: records of title and severity
  Queries,      \* queries of a search (at most 20)
  MaxSearches,  \* bound: searches
  MaxAnswers    \* bound: executions of the other use cases

ASSUME UseCasesAssumption ==
  /\ {Queries, MaxSearches, MaxAnswers} \subseteq Nat
  /\ \A t \in Titles : t.severity \in 1..3   \* MEDIUM, HIGH, CRITICAL

VARIABLES
  wrapped,  \* whether what repositories find has the .value that is read
  open,     \* browsers, contexts and pages that are open, by the search that opened them
  shared,   \* self.browser, self.context, self.page: the search that opened it, 0 for None
  searches, \* executions of SearchCompetitorSignalsUseCase
  saved,    \* history: calls of save, add_node and add_edge that returned
  told,     \* history: what the responses said was made
  answer,   \* the last response of the other use cases
  asked     \* history: their executions

browserVars == <<open, shared>>
searchVars == <<browserVars, searches>>
answerVars == <<saved, told, answer, asked>>
useCaseVars == <<wrapped, searchVars, answerVars>>

Made == {"report", "signal", "node", "edge"}
Nothing == [k \in Made |-> 0]

UseCasesInit ==
  /\ wrapped \in BOOLEAN
  /\ open = {} /\ shared = <<0, 0, 0>> /\ searches = <<>>
  /\ saved = Nothing /\ told = Nothing /\ asked = 0
  /\ answer = [what |-> "none", ok |-> FALSE, n |-> 0, of |-> 0]

-----------------------------------------------------------------------------
(* A search has the browser in use from its initialize to its close. One   *)
(* is alone when no other one has it in use meanwhile.                     *)
InUse(q) == q.at \in {"opening", "searching"}

(* Search of a company that is found; reading its name is in the try too.  *)
StartSearch(min, unverified) ==
  LET alone  == \A i \in DOMAIN searches : ~InUse(searches[i])
      others == [i \in DOMAIN searches |->
                   [searches[i] EXCEPT !.alone = @ /\ ~(wrapped /\ InUse(searches[i]))]]
  IN  /\ Len(searches) < MaxSearches
      /\ searches' = Append(others,
           [at |-> IF wrapped THEN "opening" ELSE "failed", stage |-> 0, left |-> Queries, found |-> <<>>,
            min |-> min, unverified |-> unverified, relevant |-> <<>>, onClosed |-> 0, alone |-> alone])
      /\ UNCHANGED <<wrapped, browserVars, answerVars>>

(* initialize: launches a browser whether or not there is one, and opens a *)
(* context of it and a page of that. What a failure leaves is not closed.  *)
Initialize(s, ok) ==
  LET n == searches[s].stage
  IN  /\ searches[s].at = "opening"
      /\ ok => n = 0 \/ <<n, s>> \in open
      /\ searches' = [searches EXCEPT
           ![s].at = IF ~ok THEN "failed" ELSE IF n = 2 THEN "searching" ELSE "opening",
           ![s].stage = IF ok THEN n + 1 ELSE n]
      /\ open' = IF ok THEN open \cup {<<n + 1, s>>} ELSE open
      /\ shared' = IF ok THEN [shared EXCEPT ![n + 1] = s] ELSE shared
      /\ UNCHANGED <<wrapped, answerVars>>

(* The next query, on the page there is now: an error is passed over, of a *)
(* page that was closed or any other. Of each result,                      *)
(* _extract_signal_from_result makes a signal or not.                      *)
Query(s) ==
  LET there == <<3, shared[3]>> \in open
  IN  /\ searches[s].at = "searching" /\ searches[s].left > 0
      /\ \E results \in {<<>>} \cup (IF there THEN {<<t>> : t \in Titles} ELSE {}) :
           searches' = [searches EXCEPT ![s].left = @ - 1, ![s].found = @ \o results,
                                        ![s].onClosed = @ + (IF there THEN 0 ELSE 1)]
      /\ UNCHANGED <<wrapped, browserVars, answerVars>>

(* _deduplicate_signals: the first of each title.                          *)
Deduplicated(found) ==
  LET firsts == Only([i \in DOMAIN found |-> i],
                     {i \in DOMAIN found : \A j \in 1..(i - 1) : found[j].title # found[i].title})
  IN  [k \in DOMAIN firsts |-> found[firsts[k]]]

(* What is at least as severe as asked for; and all that was extracted is  *)
(* unverified.                                                             *)
Relevant(q) ==
  IF q.unverified THEN Only(Deduplicated(q.found), {t \in Titles : t.severity >= q.min}) ELSE <<>>

(* close: the page, the context and the browser there are now, one after   *)
(* the other; a context goes with its pages and a browser with its context.*)
(* The last close ends the search, whose answer asks for a summary unless  *)
(* there is nothing to summarize.                                          *)
CloseBrowser(s, ok) ==
  LET n == searches[s].stage
  IN  /\ searches[s].at = "searching" /\ searches[s].left = 0
      /\ searches' = [searches EXCEPT
           ![s].at = IF ~ok THEN "failed" ELSE IF n = 1 THEN "summarizing" ELSE "searching",
           ![s].stage = IF ok THEN n - 1 ELSE n,
           ![s].relevant = IF ok /\ n = 1 THEN Relevant(searches[s]) ELSE <<>>]
      /\ open' = IF ok THEN open \ {<<k, shared[n]>> : k \in n..3} ELSE open
      /\ UNCHANGED <<wrapped, shared, answerVars>>

Summarize(s, ok) ==
  /\ searches[s].at = "summarizing"
  /\ ok \/ searches[s].relevant # <<>>
  /\ searches' = [searches EXCEPT ![s].at = IF ok THEN "found" ELSE "failed"]
  /\ UNCHANGED <<wrapped, browserVars, answerVars>>

(* CancelledError passes every except Exception, and close is left out.    *)
CancelSearch(s) ==
  /\ searches[s].at \in {"opening", "searching", "summarizing"}
  /\ searches' = [searches EXCEPT ![s].at = "cancelled"]
  /\ UNCHANGED <<wrapped, browserVars, answerVars>>

(* What is asked for: the least severity, and whether unverified signals.  *)
SearchRequests == {<<1, FALSE>>, <<2, TRUE>>}

SearchNext ==
  \/ \E r \in SearchRequests : StartSearch(r[1], r[2])
  \/ \E s \in DOMAIN searches :
       \/ Query(s) \/ CancelSearch(s)
       \/ \E ok \in BOOLEAN : Initialize(s, ok) \/ CloseBrowser(s, ok) \/ Summarize(s, ok)

-----------------------------------------------------------------------------
(* A response, of what was made by calls that returned and of what it says *)
(* was made.                                                               *)
Respond(what, ok, n, of, made, said) ==
  /\ asked < MaxAnswers /\ asked' = asked + 1
  /\ answer' = [what |-> what, ok |-> ok, n |-> n, of |-> of]
  /\ saved' = [k \in Made |-> saved[k] + made[k]]
  /\ told' = [k \in Made |-> told[k] + said[k]]
  /\ UNCHANGED <<wrapped, searchVars>>

(* One that makes nothing.                                                 *)
Answer(what, ok, n, of) == Respond(what, ok, n, of, Nothing, Nothing)

(* Report.create and Signal.create: parameters without a default, and all. *)
ReportNeeds == {"title", "report_type"}
ReportTakes == ReportNeeds \cup {"requested_by"}
SignalNeeds == {"signal_type", "entity_name", "title", "description", "source"}
SignalTakes == SignalNeeds \cup {"source_url", "company_id"}

(* What the use case and ReportGenerationService give the one, and         *)
(* update_company_intelligence the other.                                  *)
ReportGiven == {"company_ids", "report_type", "content", "sections"}
SignalGiven == {"company_id", "signal_type", "title", "source", "severity"}
Creates(given, needs, takes) == needs \subseteq given /\ given \subseteq takes

(* GenerateIntelligenceReportUseCase, create_competitive_analysis: each of *)
(* three sections is asked of the LLM before the report is created and     *)
(* saved; one of these calls may fail.                                     *)
GenerateReport(works) ==
  LET ok   == wrapped /\ works /\ Creates(ReportGiven, ReportNeeds, ReportTakes)
      made == [Nothing EXCEPT !["report"] = IF ok THEN 1 ELSE 0]
  IN  Respond("report", ok, 0, 0, made, made)

(* update_company_intelligence: of n signals, `kept` are saved; one that   *)
(* cannot be made or saved is passed over.                                 *)
UpdateIntelligence(n, kept) ==
  LET made == [Nothing EXCEPT !["signal"] = IF Creates(SignalGiven, SignalNeeds, SignalTakes) THEN kept ELSE 0]
  IN  Respond("update", TRUE, 0, n, made, made)

(* get_company_intelligence.                                               *)
GetIntelligence(signals) == Answer("intelligence", wrapped, signals, signals)

(* AnalyzeMarketTrendsUseCase, markets of which `peopled` have companies   *)
(* and `answered` is how many of them the LLM answers.                     *)
AnalyzeTrends(markets, peopled, answered) ==
  LET ok == answered = markets /\ (wrapped \/ peopled = 0)
  IN  Answer("trends", ok, IF ok THEN markets ELSE 0, markets)

(* TrackCompetitorActivityUseCase, of a competitor with n signals.         *)
TrackActivity(n) == Answer("track", wrapped \/ n = 0, n, n)

(* LearnFromFeedbackUseCase.                                               *)
LearnFromFeedback(llm) == Answer("learn", llm, 0, 0)

(* build_competitive_graph for one company with a number of competitors,   *)
(* of which three at most are looked up. Of the calls of the graph the     *)
(* first `work` return; the error of the next is passed over, and with it  *)
(* the rest of the company.                                                *)
BuildGraph(competitors, known, work) ==
  LET calls == IF wrapped THEN 1 + Min({3, competitors, known}) ELSE 0
      done  == Min({calls, work})
      made  == [Nothing EXCEPT !["node"] = IF done > 0 THEN 1 ELSE 0,
                               !["edge"] = IF done > 0 THEN done - 1 ELSE 0]
  IN  Respond("graph", TRUE, done, calls, made, made)

OthersNext ==
  \/ \E works \in BOOLEAN : GenerateReport(works) \/ LearnFromFeedback(works)
  \/ \E n \in 0..2 : GetIntelligence(n) \/ TrackActivity(n) \/ \E kept \in 0..n : UpdateIntelligence(n, kept)
  \/ \E markets \in 1..2 : \E peopled, answered \in 0..markets : AnalyzeTrends(markets, peopled, answered)
  \/ \E competitors \in {0, 4}, known \in {2, 4}, work \in 0..4 : BuildGraph(competitors, known, work)

-----------------------------------------------------------------------------
UseCasesTypeOK ==
  /\ \A s \in DOMAIN searches :
       searches[s].stage \in 0..3 /\ searches[s].left + searches[s].onClosed <= Queries
  /\ asked <= MaxAnswers

(* A search that no other one overlaps puts no query to a page that was    *)
(* closed, whatever earlier ones left open or half closed, and what it     *)
(* opened is closed with it: a browser that stays open is of a search that *)
(* overlapped, failed or was cancelled.                                    *)
BrowserOwned ==
  \A s \in DOMAIN searches :
    searches[s].alone =>
      /\ searches[s].onClosed = 0
      /\ searches[s].at \in {"summarizing", "found"} => \A k \in 1..3 : <<k, s>> \notin open

(* What a search gives as relevant has each title once, none less severe   *)
(* than asked for, and nothing at all unless unverified signals are        *)
(* included, which by default they are not.                                *)
SearchAnswers ==
  \A s \in DOMAIN searches :
    LET q == searches[s]
    IN  q.at = "found" =>
          /\ wrapped
          /\ IsInjective([i \in DOMAIN q.relevant |-> q.relevant[i].title])
          /\ \A i \in DOMAIN q.relevant : q.relevant[i].severity >= q.min
          /\ q.relevant # <<>> => q.unverified

(* What the responses of the use cases and services say was made is what   *)
(* was saved, whichever call of the repositories fails and however often;  *)
(* trends that are answered are those of every market asked for.           *)
ToldIsSaved ==
  /\ told = saved
  /\ answer.what = "trends" /\ answer.ok => answer.n = answer.of
=============================================================================
