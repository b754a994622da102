\* One administrator who saves nothing but the settings of the feeds, the logo and the
\* intelligence section.
SPECIFICATION ConfigSpec
CONSTANTS
    Saver = {h1}
    Files <- MCFiles
    Bodies = {}
    Feeds <- MCFeeds
    Attested = FALSE
    Rules = FALSE
    MaxSaves = 2
    Absent = Absent
INVARIANTS FeedsMerged
