----------------------------- MODULE MCLogBlock -----------------------------
(* Loads for TLC.                                                           *)
EXTENDS LogBlock

Load(pages, writes, fails, defects) ==
    [pages |-> pages, writes |-> writes, fails |-> fails, bad |-> defects]

CutLoads    == {Load({0, 1}, 5, 0, {})}
ResumeLoads == {Load({0, 1}, 5, 1, {})}
WornLoads   == {Load({0, 1}, 4, 1, {})}
RedoLoads   == {Load({1, 2}, 7, 1, {})}

\* Flash in two interleaved banks.  On sound flash pages of both banks are written,
\* page 0 among them; on worn flash programs fail, and the pages written leave page 0
\* out, so that its logical information has to be written apart.
BankLoads ==
    {Load({0, 1, 3, 5}, 4, 0, {BLOCKS - 1}), Load({1, 2}, 4, 2, {})}

\* SurvivesPowerCut on sound flash: a power cut at any step between two programs or
\* erases of interleaved banks loses no page whose program had ended.
SoundSurvives == count.load.fails = 0 => SurvivesPowerCut

=============================================================================
