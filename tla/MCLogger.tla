------------------------------ MODULE MCLogger ------------------------------
EXTENDS Logger

Http == <<"minotari", "http">>
Scan == <<"minotari", "scan">>

\* The default config's caps, a caller that opens the HTTP client up (twice: the last one
\* counts), and a quiet config that does not name the payload summaries.
MCConfigs == {
    [default |-> Info, modules |-> <<[target |-> <<"minotari">>, level |-> Info],
                                     [target |-> PayloadTarget, level |-> Warn]>>],
    [default |-> ErrorLevel, modules |-> <<[target |-> Http, level |-> Off],
                                           [target |-> Http, level |-> 5]>>],
    [default |-> Warn, modules |-> <<>>]}

\* A URL with credentials at a level no ceiling lets through, and one that a cap of three
\* tokens cuts before its "@"; a record of the payload summaries; a forged line.
MCRecords == {
    [target |-> Http \o <<"client">>, level |-> 4, message |-> <<"a">>, value |-> <<>>],
    [target |-> Http, level |-> Info, message |-> <<"a">>, value |-> <<>>],
    [target |-> Scan, level |-> 4,
     message |-> <<"a", "://", "p", "p", "@", "a">>, value |-> <<"\n", "a", "://", "p", "@">>],
    [target |-> PayloadTarget, level |-> Info, message |-> <<"a", "\n">>, value |-> <<>>]}
=============================================================================
