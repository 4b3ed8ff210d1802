CONSTANTS
  Lines = 2
  MaxPictures = 2
  MaxRequests = 2
  MaxTime = 1
  Persons = {"ann"}
  Bodies <- BadBodies
  Room = 2
SPECIFICATION FairSpec
INVARIANT TypeOK
INVARIANT PictureNotStale
INVARIANT LoggedWasMailed
INVARIANT SuccessIsRecorded
INVARIANT RecordHasPicture
 
INVARIANT BadRequestHarmless
PROPERTY PictureEnds
