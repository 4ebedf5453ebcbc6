---------------------------- MODULE MCRangeList ----------------------------
EXTENDS RangeList

\* Six keys: up to three ranges, and every way two ranges can touch or
\* nest; with two ranges find takes every path of its loop.
MCKeys == 0 .. 5
=============================================================================
