---------------------------- MODULE MCSearchPages ----------------------------
EXTENDS SearchPages, TLC

CONSTANTS media, epg, sitepack, mediaQuery, sitePackQuery

MCPages == {media, epg, sitepack}

\* The epg and the xmltv store their query at the key of the media page.
MCKeyOf == (media :> mediaQuery) @@ (epg :> mediaQuery) @@ (sitepack :> sitePackQuery)
=============================================================================
