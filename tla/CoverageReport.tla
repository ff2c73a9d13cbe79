--------------------------- MODULE CoverageReport ---------------------------
(***************************************************************************)
(* tb/coverage_report.py for one metric: file ids are given source files   *)
(* by looking for signatures, the bits of every instance are counted for   *)
(* the files, and the counts are reported three times over: file by file,  *)
(* as line ranges, and as a summary.                                       *)
(*                                                                         *)
(* An element of the shape database has a file id, its line (and, for a    *)
(* branch, the line of the false clause; 0 stands for one that is not a    *)
(* number), whether it is ignored, and the source files in which its       *)
(* signature stands at its line.  The order of os.walk is not known.       *)
(***************************************************************************)
EXTENDS LineRanges, FiniteSetsExt, SequencesExt, Functions

CONSTANTS
  FIDS, SOURCES,    \* file ids; source files
  KEY, TB,          \* source files named *ludp* or *fpga*; named *tb_*
  SHAPES,           \* shape databases: sequences of [chksum, elems]
  DATA,             \* test data: sequences of [chksum, bits]
  SIG_ENTRIES       \* elements tried for a file id (5 in the source)

Elements == [fid : FIDS, line : Nat, line_f : Nat, ignore : BOOLEAN, found : SUBSET SOURCES]
Definitions == [chksum : STRING, elems : Seq(Elements)]
Instances == [chksum : STRING, bits : Seq({0, 1})]

ASSUME CoverageAssumption ==
  /\ IsFiniteSet(FIDS) /\ IsFiniteSet(SOURCES) /\ KEY \subseteq SOURCES /\ TB \subseteq SOURCES
  /\ SHAPES \subseteq Seq(Definitions) /\ DATA \subseteq Seq(Instances)

VARIABLES
  cov,              \* pc, metric, shape, data, fmap, inst, pos
  stats,            \* per file name: total, covered, lines
  rep               \* print_report and the summary: todo and sums

covVars == <<cov, stats, rep, lrVars>>

Names == ({"file"} \X SOURCES) \cup ({"unknown"} \X FIDS)
KeyNames == {"file"} \X KEY
FilteredNames == {"file"} \X (KEY \cup TB)

NoStats == [n \in Names |-> [total |-> 0, covered |-> 0, lines |-> <<>>]]

\* The elements of a database that build_file_id_map looks at.
Kept(metric, shape) ==
  LET es == FlattenSeq([k \in DOMAIN shape |-> shape[k].elems])
  IN SelectSeq(es, LAMBDA e : ~(metric = "line" /\ e.ignore))

\* build_file_id_map: the first of the first few elements found in any source decides.
FileNames(metric, shape, fid) ==
  LET es == SelectSeq(Kept(metric, shape), LAMBDA e : e.fid = fid)
      hits == {k \in DOMAIN es : k <= SIG_ENTRIES /\ es[k].found /= {}}
  IN IF hits = {} THEN {<<"unknown", fid>>} ELSE {"file"} \X es[Min(hits)].found

\* The entries of an element: a branch has one for either clause.
ElementEntries(metric, e) ==
  CASE metric = "branch" -> <<<<e.fid, e.line>>, <<e.fid, e.line_f>>>>
    [] metric = "line" /\ e.ignore -> <<>>
    [] OTHER -> <<<<e.fid, e.line>>>>

\* chksum_to_entries[chksum]: definitions with the same checksum share a list.
Entries(metric, shape, chksum) ==
  LET es == FlattenSeq([k \in 1 .. Len(shape) |->
                          IF shape[k].chksum = chksum THEN shape[k].elems ELSE <<>>])
  IN FlattenSeq([k \in 1 .. Len(es) |-> ElementEntries(metric, es[k])])

NoSums == [all |-> 0, cov_all |-> 0, filt |-> 0, cov_filt |-> 0]

CovInit ==
  /\ cov = [pc |-> "idle", metric |-> "line", shape |-> <<>>, data |-> <<>>,
            fmap |-> [f \in FIDS |-> <<"unknown", f>>], inst |-> 1, pos |-> 1]
  /\ stats = NoStats
  /\ rep = [todo |-> {}, printed |-> NoSums, summary |-> NoSums]
  /\ LrInit

-----------------------------------------------------------------------------
\* The shape database is read, twice.
ParseShape(metric, shape, data) ==
  /\ cov.pc = "idle"
  /\ \E fmap \in [FIDS -> Names] :
       /\ \A f \in FIDS : fmap[f] \in FileNames(metric, shape, f)
       /\ cov' = [cov EXCEPT !.pc = "data", !.metric = metric, !.shape = shape,
                             !.data = data, !.fmap = fmap]
  /\ UNCHANGED <<stats, rep, lrVars>>

\* build_file_id_map, outside any try, meets a broken database first.
ShapeError ==
  /\ cov.pc = "idle"
  /\ cov' = [cov EXCEPT !.pc = "raised"]
  /\ UNCHANGED <<stats, rep, lrVars>>

\* Broken test data are found before the first instance: the report is empty.
DataError ==
  /\ cov.pc = "data" /\ cov.inst = 1 /\ cov.pos = 1
  /\ cov' = [cov EXCEPT !.pc = "report", !.data = <<>>]
  /\ rep' = [rep EXCEPT !.todo = Names]
  /\ UNCHANGED <<stats, lrVars>>

InstEntries == Entries(cov.metric, cov.shape, cov.data[cov.inst].chksum)

\* Mutant: a bit string that is too short ends in covered entries.
CountEntryShort ==
  /\ cov.pc = "data" /\ cov.inst <= Len(cov.data) /\ cov.pos <= Len(InstEntries)
  /\ LET entry == InstEntries[cov.pos]
         bits == cov.data[cov.inst].bits
         hit == cov.pos > Len(bits) \/ bits[cov.pos] = 1
     IN stats' = [stats EXCEPT ![cov.fmap[entry[1]]] =
                    [total |-> @.total + 1,
                     covered |-> IF hit THEN @.covered + 1 ELSE @.covered,
                     lines |-> IF hit THEN @.lines ELSE Append(@.lines, entry[2])]]
  /\ cov' = [cov EXCEPT !.pos = @ + 1]
  /\ UNCHANGED <<rep, lrVars>>

CountEntry ==
  /\ cov.pc = "data" /\ cov.inst <= Len(cov.data) /\ cov.pos <= Len(InstEntries)
  /\ LET entry == InstEntries[cov.pos]
         bits == cov.data[cov.inst].bits
         hit == cov.pos <= Len(bits) /\ bits[cov.pos] = 1
     IN stats' = [stats EXCEPT ![cov.fmap[entry[1]]] =
                    [total |-> @.total + 1,
                     covered |-> IF hit THEN @.covered + 1 ELSE @.covered,
                     lines |-> IF hit THEN @.lines ELSE Append(@.lines, entry[2])]]
  /\ cov' = [cov EXCEPT !.pos = @ + 1]
  /\ UNCHANGED <<rep, lrVars>>

NextInstance ==
  /\ cov.pc = "data" /\ cov.inst <= Len(cov.data) /\ cov.pos > Len(InstEntries)
  /\ cov' = [cov EXCEPT !.inst = @ + 1, !.pos = 1]
  /\ UNCHANGED <<stats, rep, lrVars>>

EndOfData ==
  /\ cov.pc = "data" /\ cov.inst > Len(cov.data)
  /\ cov' = [cov EXCEPT !.pc = "report"]
  /\ rep' = [rep EXCEPT !.todo = Names]
  /\ UNCHANGED <<stats, lrVars>>

\* Mutant: the testbench files are left out of the filtered total.
ReportFileKeyOnly(n) ==
  LET s == stats[n]  p == rep.printed
      f == IF n \in KeyNames THEN 1 ELSE 0
  IN rep' = [rep EXCEPT !.todo = @ \ {n},
               !.printed = [all |-> p.all + s.total, cov_all |-> p.cov_all + s.covered,
                            filt |-> p.filt + f * s.total, cov_filt |-> p.cov_filt + f * s.covered]]

\* A row of the table; a file with no entry is passed over.
ReportFile(n) ==
  LET s == stats[n]  p == rep.printed
      f == IF n \in FilteredNames THEN 1 ELSE 0
  IN rep' = [rep EXCEPT !.todo = @ \ {n},
               !.printed = [all |-> p.all + s.total, cov_all |-> p.cov_all + s.covered,
                            filt |-> p.filt + f * s.total, cov_filt |-> p.cov_filt + f * s.covered]]

ReportRows ==
  /\ cov.pc = "report" /\ rep.todo /= {}
  /\ ReportFile(CHOOSE n \in rep.todo : TRUE)
  /\ UNCHANGED <<cov, stats, lrVars>>

\* The second loop, over the key files with something uncovered.
ReportTotals ==
  /\ cov.pc = "report" /\ rep.todo = {}
  /\ cov' = [cov EXCEPT !.pc = "ranges"]
  /\ rep' = [rep EXCEPT !.todo = {n \in KeyNames : stats[n].lines /= <<>>}]
  /\ UNCHANGED <<stats, lrVars>>

ReportUncovered ==
  /\ cov.pc = "ranges" /\ lr_pc /= "loop" /\ rep.todo /= {}
  /\ LET n == CHOOSE n \in rep.todo : TRUE
     IN /\ Begin({l \in ToSet(stats[n].lines) : l > 0})
        /\ rep' = [rep EXCEPT !.todo = @ \ {n}]
  /\ UNCHANGED <<cov, stats>>

RangeStep == cov.pc = "ranges" /\ LrStep /\ UNCHANGED <<cov, stats, rep>>

\* calc_overall, for all the files and for those with one of the keywords.
Totals == [n \in Names |-> stats[n].total]
Covereds == [n \in Names |-> stats[n].covered]

Overall ==
  [all |-> SumFunctionOnSet(Totals, Names), cov_all |-> SumFunctionOnSet(Covereds, Names),
   filt |-> SumFunctionOnSet(Totals, FilteredNames),
   cov_filt |-> SumFunctionOnSet(Covereds, FilteredNames)]

\* The summary at the end of the script adds everything up again.
Summarise ==
  /\ cov.pc = "ranges" /\ lr_pc /= "loop" /\ rep.todo = {}
  /\ cov' = [cov EXCEPT !.pc = "end"]
  /\ rep' = [rep EXCEPT !.summary = Overall]
  /\ UNCHANGED <<stats, lrVars>>

CovNext ==
  \/ \E metric \in {"line", "branch", "cond"}, shape \in SHAPES, data \in DATA :
       ParseShape(metric, shape, data)
  \/ ShapeError \/ DataError \/ CountEntry \/ NextInstance \/ EndOfData
  \/ ReportRows \/ ReportTotals \/ ReportUncovered \/ RangeStep \/ Summarise

CovSpec == CovInit /\ [][CovNext]_covVars

-----------------------------------------------------------------------------
\* Per instance: its entries, and those of them whose bit is there and set.
EntryCount ==
  [k \in 1 .. Len(cov.data) |-> Len(Entries(cov.metric, cov.shape, cov.data[k].chksum))]

HitCount ==
  [k \in 1 .. Len(cov.data) |->
     Cardinality({j \in 1 .. Len(cov.data[k].bits) : j <= EntryCount[k] /\ cov.data[k].bits[j] = 1})]

\* Whatever files the ids were given to, every entry of every instance is counted for
\* one file, as covered exactly if its bit is there and set: nothing is lost or counted
\* twice when ids share a file, bits are missing or entries are ignored.
EveryEntryCounted ==
  cov.pc = "end" =>
    /\ SumFunctionOnSet(Totals, Names) = SumFunctionOnSet(EntryCount, 1 .. Len(cov.data))
    /\ SumFunctionOnSet(Covereds, Names) = SumFunctionOnSet(HitCount, 1 .. Len(cov.data))
    /\ \A n \in Names : stats[n].covered + Len(stats[n].lines) = stats[n].total

\* The totals print_report keeps while it walks the files are those the summary computes.
SummaryAgrees == cov.pc = "end" => rep.printed = rep.summary
=============================================================================
